---------------------------- MODULE Spec2Model ----------------------------
(***************************************************************************)
(* State-machine model of the DNS cache services of unbound               *)
(* (services/cache/dns.c) together with the packed RRset helpers           *)
(* (util/data/packed_rrset.c).                                             *)
(*                                                                         *)
(* The RRset cache, the message cache, the region allocator and the        *)
(* delegation point routines are collaborators of dns.c; their behaviour   *)
(* is taken from the design description where their code is not part of    *)
(* the two files.                                                          *)
(***************************************************************************)
EXTENDS Integers, Sequences, FiniteSets, TLC

VARIABLES
    rrset_cache,  \* RRset store: RRsetKey -> [id, data]
    msg_cache,    \* message store: QueryKey -> reply_info
    idctr,        \* last id handed out for an RRset entry
    now,          \* time(NULL)
    last,         \* outcome of the last completed operation
    pc,           \* per worker thread: position in its current operation
    loc,          \* per worker thread: local variables of its operation
    held,         \* per worker thread: the entry locks it holds
    lockerr       \* the operations that unlocked a lock the thread did not hold

vars == <<rrset_cache, msg_cache, idctr, now, last, pc, loc, held, lockerr>>

-----------------------------------------------------------------------------
(* Bounds of the model *)

\* modulus of the unsigned TTL/time arithmetic (stands for 2^32)
UintMod == 64
\* the clock runs from 0 to MaxNow
MaxNow == 1
\* number of RRset ids the store hands out in one behaviour
MaxId == 2
\* the allocations of one call that may fail are the first MaxAlloc
MaxAlloc == 24
\* the same for a call that builds no referral message
MaxAllocNoMsg == 8

(* Program constants *)
LDNS_RR_TYPE_A == 1
LDNS_RR_TYPE_NS == 2
LDNS_RR_TYPE_CNAME == 5
LDNS_RR_TYPE_AAAA == 28
LDNS_RR_TYPE_DNAME == 39
LDNS_RR_TYPE_DS == 43
LDNS_RR_TYPE_NSEC == 47
LDNS_RR_CLASS_IN == 1
LDNS_MAX_DOMAINLEN == 255
LDNS_RCODE_NXDOMAIN == 3
LDNS_RCODE_YXDOMAIN == 6
BIT_QR == 32768
rrset_trust_ans_noAA == 5
rrset_trust_glue == 6
rrset_trust_ans_AA == 8

-----------------------------------------------------------------------------
(* Unsigned arithmetic of uint32_t values *)

UAdd(a, b) == (a + b) % UintMod
USub(a, b) == (a - b + UintMod) % UintMod

Min(a, b) == IF a < b THEN a ELSE b
Max(a, b) == IF a > b THEN a ELSE b

RECURSIVE SeqMin(_)
SeqMin(s) == IF Len(s) = 1 THEN s[1] ELSE Min(s[1], SeqMin(Tail(s)))

RECURSIVE BitOr(_, _)
BitOr(a, b) ==
    IF a = 0 THEN b
    ELSE IF b = 0 THEN a
    ELSE (IF a % 2 = 1 \/ b % 2 = 1 THEN 1 ELSE 0) + 2 * BitOr(a \div 2, b \div 2)

\* rk.type is kept in network byte order; value seen by a little-endian host
htons(x) == (x % 256) * 256 + (x \div 256)
ntohs(x) == htons(x)

ldns_read_uint16(b) == b[1] * 256 + b[2]
ldns_write_uint16(n) == <<n \div 256, n % 256>>

-----------------------------------------------------------------------------
(* Domain names in wire format: length-prefixed labels, closed by the root *)

Rep(n, b) == [i \in 1..n |-> b]
Label(n, b) == <<n>> \o Rep(n, b)

tolower(b) == IF b >= 65 /\ b <= 90 THEN b + 32 ELSE b

\* length of the name at the head of buffer d (at most maxlen bytes), 0 if bad
RECURSIVE dname_valid_from(_, _, _, _)
dname_valid_from(d, maxlen, pos, len) ==
    IF pos > Len(d) THEN 0
    ELSE LET labellen == d[pos] IN
         IF labellen = 0
         THEN (IF len + 1 > maxlen THEN 0 ELSE len + 1)
         ELSE IF labellen >= 64 THEN 0
         ELSE IF len + labellen + 1 >= LDNS_MAX_DOMAINLEN THEN 0
         ELSE IF len + labellen + 1 > maxlen THEN 0
         ELSE dname_valid_from(d, maxlen, pos + labellen + 1, len + labellen + 1)

dname_valid(d, maxlen) == dname_valid_from(d, maxlen, 1, 0)

\* label by label comparison, lowercased: -1, 0 or 1
RECURSIVE query_dname_compare_from(_, _, _)
query_dname_compare_from(d1, d2, pos) ==
    LET lab1 == d1[pos]
        lab2 == d2[pos]
    IN  IF lab1 = 0 /\ lab2 = 0 THEN 0
        ELSE IF lab1 # lab2 THEN (IF lab1 < lab2 THEN -1 ELSE 1)
        ELSE LET diff == {i \in 1..lab1 :
                            tolower(d1[pos + i]) # tolower(d2[pos + i])}
             IN  IF diff # {}
                 THEN LET i == CHOOSE j \in diff : \A k \in diff : j <= k
                      IN  IF tolower(d1[pos + i]) < tolower(d2[pos + i])
                          THEN -1 ELSE 1
                 ELSE query_dname_compare_from(d1, d2, pos + lab1 + 1)

query_dname_compare(d1, d2) == query_dname_compare_from(d1, d2, 1)

-----------------------------------------------------------------------------
(* RRset keys and packed RRset data *)

\* struct packed_rrset_key; type and class are held in network byte order
RK(name, type, class) ==
    [dname |-> name, dname_len |-> Len(name), type |-> htons(type),
     rrset_class |-> htons(class), flags |-> 0]

\* a null key pointer
NoKey == [dname |-> <<>>, dname_len |-> 0, type |-> 0, rrset_class |-> 0,
          flags |-> 0]

\* ub_rrset_compare that does not look at the flags
ub_rrset_compare_noflags(key1, key2) ==
    IF key1 = key2 THEN 0
    ELSE IF key1.type # key2.type
         THEN (IF key1.type < key2.type THEN -1 ELSE 1)
    ELSE IF key1.dname_len # key2.dname_len
         THEN (IF key1.dname_len < key2.dname_len THEN -1 ELSE 1)
    ELSE LET rest(c) ==
                 IF c # 0 THEN c
                 ELSE IF key1.rrset_class # key2.rrset_class
                      THEN (IF key1.rrset_class < key2.rrset_class THEN -1 ELSE 1)
                 ELSE 0
         IN  rest(query_dname_compare(key1.dname, key2.dname))

\* ub_rrset_compare(k1, k2): -1, 0 or 1
ub_rrset_compare(key1, key2) ==
    IF key1 = key2 THEN 0
    ELSE IF key1.type # key2.type
         THEN (IF key1.type < key2.type THEN -1 ELSE 1)
    ELSE IF key1.dname_len # key2.dname_len
         THEN (IF key1.dname_len < key2.dname_len THEN -1 ELSE 1)
    ELSE LET rest(c) ==
                 IF c # 0 THEN c
                 ELSE IF key1.rrset_class # key2.rrset_class
                      THEN (IF key1.rrset_class < key2.rrset_class THEN -1 ELSE 1)
                 ELSE IF key1.flags # key2.flags
                      THEN (IF key1.flags < key2.flags THEN -1 ELSE 1)
                 ELSE 0
         IN  rest(query_dname_compare(key1.dname, key2.dname))

\* struct packed_rrset_data: the count records are followed by the
\* rrsig_count signatures in rr_len, rr_data and rr_ttl; rr_data[i] is the
\* 16 bit length followed by the rdata, rr_len[i] its size in bytes
RRData(trust, ttls, rdatas, sigttls, sigs) ==
    [ttl |-> SeqMin(ttls \o sigttls), count |-> Len(rdatas),
     rrsig_count |-> Len(sigs), trust |-> trust, security |-> 0,
     rr_len |-> [i \in 1..(Len(rdatas) + Len(sigs)) |->
                    Len((rdatas \o sigs)[i])],
     rr_data |-> rdatas \o sigs, rr_ttl |-> ttls \o sigttls]

\* rdata of a record: length header and the bytes
RData(bytes) == ldns_write_uint16(Len(bytes)) \o bytes

rrsetdata_equal(d1, d2) ==
    IF d1.count # d2.count \/ d1.rrsig_count # d2.rrsig_count THEN FALSE
    ELSE \A i \in 1..(d1.count + d1.rrsig_count) :
            /\ d1.rr_len[i] = d2.rr_len[i]
            /\ d1.rr_data[i] = d2.rr_data[i]

\* packed_rrset_ttl_add that shifts the TTL of the set only
packed_rrset_ttl_add_setonly(data, add) ==
    [data EXCEPT !.ttl = UAdd(@, add)]

\* packed_rrset_ttl_add with a loop that stops at count, before the
\* signatures
packed_rrset_ttl_add_norrsig(data, add) ==
    [data EXCEPT !.ttl = UAdd(@, add),
                 !.rr_ttl = [i \in 1..(data.count + data.rrsig_count) |->
                                IF i <= data.count
                                THEN UAdd(data.rr_ttl[i], add)
                                ELSE data.rr_ttl[i]]]

packed_rrset_ttl_add(data, add) ==
    [data EXCEPT !.ttl = UAdd(@, add),
                 !.rr_ttl = [i \in 1..(data.count + data.rrsig_count) |->
                                UAdd(data.rr_ttl[i], add)]]

\* result of get_cname_target: dname stays NULL (ok = FALSE) when the
\* rdata is rejected
NoTarget == [ok |-> FALSE, dname |-> <<>>, dname_len |-> 0]

get_cname_target(rrset) ==
    LET d == rrset.data IN
    IF ntohs(rrset.rk.type) # LDNS_RR_TYPE_CNAME
       /\ ntohs(rrset.rk.type) # LDNS_RR_TYPE_DNAME THEN NoTarget
    ELSE IF d.count < 1 THEN NoTarget
    ELSE IF d.rr_len[1] < 3 THEN NoTarget
    ELSE LET len == ldns_read_uint16(d.rr_data[1]) IN
         IF len # d.rr_len[1] - 2 THEN NoTarget
         ELSE IF dname_valid(SubSeq(d.rr_data[1], 3, d.rr_len[1]), len) # len
              THEN NoTarget
         ELSE [ok |-> TRUE,
               dname |-> SubSeq(d.rr_data[1], 3, 2 + len),
               dname_len |-> len]

-----------------------------------------------------------------------------
(* The region allocator: the allocations of one call are numbered 1, 2, ...;
   oom is the set of those that fail.  n counts the allocations made. *)

\* how many of the next k allocations are made: all k, or up to and
\* including the first that fails
AllocsDone(n, k, oom) ==
    IF \E i \in 1..k : (n + i) \in oom
    THEN CHOOSE i \in 1..k : (n + i) \in oom /\ \A j \in 1..(i - 1) : (n + j) \notin oom
    ELSE k

AllocsOk(n, k, oom) == \A i \in 1..k : (n + i) \notin oom

-----------------------------------------------------------------------------
(* The RRset cache *)

\* the key object of the entry stored under rk
Entry(cache, rk) == [rk |-> rk, id |-> cache[rk].id, data |-> cache[rk].data]

\* the stored key that compares equal to k, NoKey if there is none
StoredKey(cache, k) ==
    LET found(hit) == IF hit = {} THEN NoKey ELSE CHOOSE s \in hit : TRUE
    IN  found({s \in DOMAIN cache : ub_rrset_compare(s, k) = 0})

LookupKey(qname, qnamelen, qtype, qclass, flags) ==
    [dname |-> SubSeq(qname, 1, qnamelen), dname_len |-> qnamelen,
     type |-> htons(qtype), rrset_class |-> htons(qclass), flags |-> flags]

\* the entry found (to be read-locked by the caller's step), NoKey on a
\* miss or when the entry has expired
rrset_cache_lookup(cache, qname, qnamelen, qtype, qclass, flags, timenow) ==
    LET unexpired(s) ==
            IF s = NoKey THEN NoKey
            ELSE IF cache[s].data.ttl > timenow THEN s
            ELSE NoKey
    IN  unexpired(StoredKey(cache,
                            LookupKey(qname, qnamelen, qtype, qclass, flags)))

\* per record maximum of the TTLs of equal data
TtlMax(old, new) ==
    LET t == [i \in 1..(old.count + old.rrsig_count) |->
                 Max(old.rr_ttl[i], new.rr_ttl[i])]
    IN  [old EXCEPT !.rr_ttl = t, !.ttl = SeqMin(t)]

\* insert or merge key object k = [rk, id, data]; gives the new cache, the
\* id counter, the reference as rewritten and whether the key was in the cache
rrset_cache_update(cache, ctr, k, timenow) ==
    LET update(s) ==
            IF s = NoKey
            THEN [cache |-> (k.rk :> [id |-> ctr + 1, data |-> k.data]) @@ cache,
                  ctr |-> ctr + 1,
                  ref |-> [key |-> k.rk, id |-> ctr + 1],
                  incache |-> FALSE]
            ELSE IF cache[s].data.trust > k.data.trust
            THEN [cache |-> cache, ctr |-> ctr,
                  ref |-> [key |-> s, id |-> cache[s].id],
                  incache |-> TRUE]
            ELSE IF rrsetdata_equal(k.data, cache[s].data)
            THEN [cache |-> [cache EXCEPT ![s].data = TtlMax(@, k.data)],
                  ctr |-> ctr,
                  ref |-> [key |-> s, id |-> cache[s].id],
                  incache |-> TRUE]
            ELSE [cache |-> [cache EXCEPT ![s] = [id |-> ctr + 1, data |-> k.data]],
                  ctr |-> ctr + 1,
                  ref |-> [key |-> s, id |-> ctr + 1],
                  incache |-> TRUE]
    IN  update(StoredKey(cache, k.rk))

\* a reference is live and its RRset unexpired
RefLive(cache, r, timenow) ==
    /\ r.key \in DOMAIN cache
    /\ cache[r.key].id = r.id
    /\ cache[r.key].data.ttl > timenow

\* all references can be read-locked
rrset_array_lock(cache, ref, count, timenow) ==
    \A i \in 1..count : RefLive(cache, ref[i], timenow)

-----------------------------------------------------------------------------
(* Replies: sorting the references, making the TTLs absolute *)

RECURSIVE SortInsert(_, _)
SortInsert(sorted, x) ==
    IF sorted = <<>> THEN <<x>>
    ELSE IF ub_rrset_compare(x.key, Head(sorted).key) < 0 THEN <<x>> \o sorted
    ELSE <<Head(sorted)>> \o SortInsert(Tail(sorted), x)

RECURSIVE SortRefs(_)
SortRefs(refs) ==
    IF refs = <<>> THEN <<>>
    ELSE SortInsert(SortRefs(SubSeq(refs, 1, Len(refs) - 1)), refs[Len(refs)])

reply_info_sortref(rep) == [rep EXCEPT !.ref = SortRefs(@)]

reply_info_set_ttls(rep, timenow) ==
    [rep EXCEPT !.ttl = UAdd(@, timenow),
                !.rrsets = [i \in 1..rep.rrset_count |->
                    [rep.rrsets[i] EXCEPT
                        !.data = packed_rrset_ttl_add(@, timenow)]]]

-----------------------------------------------------------------------------
(* The message cache *)

QInfo(qname, qtype, qclass) ==
    [qname |-> qname, qname_len |-> Len(qname), qtype |-> qtype,
     qclass |-> qclass]

NoQuery == [qname |-> <<>>, qname_len |-> 0, qtype |-> 0, qclass |-> 0]

query_info_compare(a, b) ==
    /\ a.qtype = b.qtype
    /\ a.qname_len = b.qname_len
    /\ query_dname_compare(a.qname, b.qname) = 0
    /\ a.qclass = b.qclass

\* the stored query key equal to k, NoQuery on a miss (the entry found is
\* read-locked by the caller's step)
slabhash_lookup(msgs, k) ==
    LET found(hit) == IF hit = {} THEN NoQuery ELSE CHOOSE s \in hit : TRUE
    IN  found({s \in DOMAIN msgs : query_info_compare(s, k)})

slabhash_insert(msgs, k, rep) ==
    LET s == slabhash_lookup(msgs, k) IN
    IF s = NoQuery THEN (k :> rep) @@ msgs
    ELSE [msgs EXCEPT ![s] = rep]

-----------------------------------------------------------------------------
(* dns_cache_store_msg *)

\* one turn of the loop of store_rrsets; st = [cache, ctr, rep]
store_rrsets_at(st, timenow, i) ==
    LET k == st.rep.rrsets[i]
        updated(u) ==
            [cache |-> u.cache, ctr |-> u.ctr,
             rep |-> [st.rep EXCEPT
                        !.ref[i] = u.ref,
                        !.rrsets[i] = IF u.incache
                                      THEN Entry(u.cache, u.ref.key)
                                      ELSE [k EXCEPT !.id = u.ref.id]]]
    IN  updated(rrset_cache_update(st.cache, st.ctr, k, timenow))

\* the reply as kept in the message cache: rrsets[i] points at a cache entry
StoredReply(rep) ==
    [rep EXCEPT !.rrsets = [i \in 1..rep.rrset_count |-> rep.rrsets[i].rk]]

\* the first part of dns_cache_store_msg: the references are set from the
\* RRsets and sorted, the TTLs are made absolute
store_msg_prepare(rep, timenow) ==
    LET r1 == [rep EXCEPT !.ref = [i \in 1..rep.rrset_count |->
                   [key |-> rep.rrsets[i].rk, id |-> rep.rrsets[i].id]]]
    IN  reply_info_set_ttls(reply_info_sortref(r1), timenow)

\* the last part of dns_cache_store_msg without the sort of the references
store_msg_entry_nosort(msgs, qinfo, rep, mallocok) ==
    IF ~mallocok THEN msgs
    ELSE slabhash_insert(msgs, qinfo, StoredReply(rep))

\* the last part of dns_cache_store_msg: the references are sorted, the
\* entry is made (unless malloc fails) and put in the message cache
store_msg_entry(msgs, qinfo, rep, mallocok) ==
    IF ~mallocok THEN msgs
    ELSE slabhash_insert(msgs, qinfo, StoredReply(reply_info_sortref(rep)))

\* where dns_cache_store_msg goes after store_rrsets when it does not
\* return for a reply of TTL 0
store_msg_after_rrsets_keepzero(ttl, mallocok) ==
    IF ~mallocok THEN "done" ELSE "store_insert"

\* where dns_cache_store_msg goes after store_rrsets: it returns for a reply
\* of TTL 0 and when query_info_entrysetup gets no memory, else it inserts
\* the entry
store_msg_after_rrsets(ttl, mallocok) ==
    IF ttl = 0 THEN "done"
    ELSE IF ~mallocok THEN "done"
    ELSE "store_insert"

\* A call of dns_cache_store_msg holds no lock between two turns of the loop
\* of store_rrsets, nor between the loop and slabhash_insert: it is taken in
\* steps.  A step gives the place pc the call goes on at ("done": it has
\* returned), its locals l and the caches.  Locals: the query q, the reply
\* given, the reply rep being rewritten, its TTL ttl as given, the time now
\* read at the start, mallocok (whether query_info_entrysetup gets its
\* memory), the turn i of the loop, stored (the entry was inserted).

\* the call starts: now is read, the references are set and sorted, the
\* TTLs are made absolute
store_msg_start(q, rep, timenow, mallocok) ==
    [pc |-> IF rep.rrset_count > 0 THEN "store_rrsets"
            ELSE store_msg_after_rrsets(rep.ttl, mallocok),
     l |-> [q |-> q, given |-> rep, rep |-> store_msg_prepare(rep, timenow),
            ttl |-> rep.ttl, now |-> timenow, mallocok |-> mallocok,
            i |-> 1, stored |-> FALSE]]

\* turn l.i of the loop of store_rrsets: one rrset_cache_update
store_msg_rrset(cache, ctr, l) ==
    LET updated(st) ==
            [pc |-> IF l.i < l.rep.rrset_count THEN "store_rrsets"
                    ELSE store_msg_after_rrsets(l.ttl, l.mallocok),
             l |-> [l EXCEPT !.rep = st.rep, !.i = @ + 1],
             cache |-> st.cache, ctr |-> st.ctr]
    IN  updated(store_rrsets_at([cache |-> cache, ctr |-> ctr, rep |-> l.rep],
                                l.now, l.i))

\* the references are sorted again, the entry is made and inserted
store_msg_insert_entry(msgs, l) ==
    [pc |-> "done",
     l |-> [l EXCEPT !.stored = TRUE],
     msgs |-> store_msg_entry(msgs, l.q, l.rep, l.mallocok)]

\* the rest of a call, from pc on, with no other thread running
RECURSIVE store_msg_run(_, _, _, _, _)
store_msg_run(cache, msgs, ctr, p, l) ==
    IF p = "store_rrsets"
    THEN LET go(r) == store_msg_run(r.cache, msgs, r.ctr, r.pc, r.l)
         IN  go(store_msg_rrset(cache, ctr, l))
    ELSE IF p = "store_insert"
    THEN LET go(r) == store_msg_run(cache, r.msgs, ctr, r.pc, r.l)
         IN  go(store_msg_insert_entry(msgs, l))
    ELSE [rrset_cache |-> cache, idctr |-> ctr, msg_cache |-> msgs,
          stored |-> l.stored]

\* a whole call with no other thread running.  rep: the reply_info as
\* parsed (relative TTLs, rrsets[i] key objects)
dns_cache_store_msg(cache, msgs, ctr, qinfo, rep, timenow, mallocok) ==
    LET go(r) == store_msg_run(cache, msgs, ctr, r.pc, r.l)
    IN  go(store_msg_start(qinfo, rep, timenow, mallocok))

-----------------------------------------------------------------------------
(* Building served messages in the caller's region *)

\* a null struct dns_msg pointer
NullMsg == [ok |-> FALSE]

\* copy_rrset without the rebasing of the record TTLs
copy_rrset_norebase(key, n, oom, timenow) ==
    IF ~AllocsOk(n, 3, oom)
    THEN [ok |-> FALSE, n |-> n + AllocsDone(n, 3, oom), ck |-> key]
    ELSE [ok |-> TRUE, n |-> n + 3,
          ck |-> [rk |-> key.rk, id |-> key.id,
                  data |-> [key.data EXCEPT !.ttl = USub(@, timenow)]]]

\* copy_rrset with the operands of the subtraction exchanged
copy_rrset_swapped(key, n, oom, timenow) ==
    IF ~AllocsOk(n, 3, oom)
    THEN [ok |-> FALSE, n |-> n + AllocsDone(n, 3, oom), ck |-> key]
    ELSE [ok |-> TRUE, n |-> n + 3,
          ck |-> [rk |-> key.rk, id |-> key.id,
                  data |-> [key.data EXCEPT
                      !.rr_ttl = [i \in 1..(key.data.count + key.data.rrsig_count)
                                    |-> USub(timenow, key.data.rr_ttl[i])],
                      !.ttl = USub(timenow, @)]]]

\* copy of a (locked) cache entry with the TTLs made relative; allocations
\* n+1 (key), n+2 (dname), n+3 (data)
copy_rrset(key, n, oom, timenow) ==
    IF ~AllocsOk(n, 3, oom)
    THEN [ok |-> FALSE, n |-> n + AllocsDone(n, 3, oom), ck |-> key]
    ELSE [ok |-> TRUE, n |-> n + 3,
          ck |-> [rk |-> key.rk, id |-> key.id,
                  data |-> [key.data EXCEPT
                      !.rr_ttl = [i \in 1..(key.data.count + key.data.rrsig_count)
                                    |-> USub(key.data.rr_ttl[i], timenow)],
                      !.ttl = USub(@, timenow)]]]

\* copy of a key object and its data in a struct regional with the TTLs made
\* relative; allocations n+1 (key), n+2 (dname), n+3 (data), NULL when one
\* of them fails
packed_rrset_copy_region(key, n, oom, timenow) ==
    IF ~AllocsOk(n, 3, oom)
    THEN [ok |-> FALSE, n |-> n + AllocsDone(n, 3, oom), ck |-> NoKey]
    ELSE [ok |-> TRUE, n |-> n + 3,
          ck |-> [rk |-> key.rk, id |-> key.id,
                  data |-> [key.data EXCEPT
                      !.rr_ttl = [i \in 1..(key.data.count + key.data.rrsig_count)
                                    |-> USub(key.data.rr_ttl[i], timenow)],
                      !.ttl = USub(@, timenow)]]]

\* allocations n+1 (msg), n+2 (qname), n+3 (rep), n+4 (rrsets array)
gen_dns_msg(n, oom, q, num) ==
    IF ~AllocsOk(n, 4, oom)
    THEN [ok |-> FALSE, n |-> n + AllocsDone(n, 4, oom), msg |-> NullMsg]
    ELSE [ok |-> TRUE, n |-> n + 4,
          msg |-> [ok |-> TRUE, qinfo |-> q, num |-> num]]

\* the copies made by the loop of tomsg once all references are locked
tomsg_copy(cache, r, n, oom, timenow) ==
    LET k == 3 * r.rrset_count IN
    IF ~AllocsOk(n, k, oom)
    THEN [ok |-> FALSE, n |-> n + AllocsDone(n, k, oom), rrsets |-> <<>>]
    ELSE [ok |-> TRUE, n |-> n + k,
          rrsets |-> [i \in 1..r.rrset_count |->
              copy_rrset(Entry(cache, r.rrsets[i]), n + 3 * (i - 1), oom,
                         timenow).ck]]

\* the message tomsg returns when the copies were made
tomsg_msg(e, r, rrsets) ==
    [ok |-> TRUE, qinfo |-> e,
     rep |-> [flags |-> r.flags, qdcount |-> r.qdcount, ttl |-> r.ttl,
              an_numrrsets |-> r.an_numrrsets,
              ns_numrrsets |-> r.ns_numrrsets,
              ar_numrrsets |-> r.ar_numrrsets,
              rrset_count |-> r.rrset_count, rrsets |-> rrsets]]

\* tomsg going on when rrset_array_lock fails on an id or a TTL
tomsg_nolockcheck(cache, e, r, n, oom, timenow) ==
    IF timenow > r.ttl THEN [msg |-> NullMsg, n |-> n]
    ELSE LET g == gen_dns_msg(n, oom, e, r.rrset_count) IN
         IF ~g.ok THEN [msg |-> NullMsg, n |-> g.n]
         ELSE IF \E i \in 1..r.rrset_count : r.rrsets[i] \notin DOMAIN cache
         THEN [msg |-> NullMsg, n |-> g.n]
         ELSE LET c == tomsg_copy(cache, r, g.n, oom, timenow) IN
              IF ~c.ok THEN [msg |-> NullMsg, n |-> c.n]
              ELSE [msg |-> tomsg_msg(e, r, c.rrsets), n |-> c.n]

\* e: the query key of the message entry, r: its reply_info
tomsg(cache, e, r, n, oom, timenow) ==
    IF timenow > r.ttl THEN [msg |-> NullMsg, n |-> n]
    ELSE LET g == gen_dns_msg(n, oom, e, r.rrset_count) IN
         IF ~g.ok THEN [msg |-> NullMsg, n |-> g.n]
         ELSE IF ~rrset_array_lock(cache, r.ref, r.rrset_count, timenow)
         THEN [msg |-> NullMsg, n |-> g.n]
         ELSE LET c == tomsg_copy(cache, r, g.n, oom, timenow) IN
              IF ~c.ok THEN [msg |-> NullMsg, n |-> c.n]
              ELSE [msg |-> tomsg_msg(e, r, c.rrsets), n |-> c.n]

\* cname_msg that counts the CNAME in the authority section
cname_msg_authority(rrset, n, oom, timenow, q) ==
    LET d == rrset.data IN
    IF timenow > d.ttl THEN [msg |-> NullMsg, n |-> n]
    ELSE LET g == gen_dns_msg(n, oom, q, 1) IN
         IF ~g.ok THEN [msg |-> NullMsg, n |-> g.n]
         ELSE LET c == copy_rrset(rrset, g.n, oom, timenow) IN
              IF ~c.ok THEN [msg |-> NullMsg, n |-> c.n]
              ELSE [msg |-> [ok |-> TRUE, qinfo |-> q,
                             rep |-> [flags |-> BIT_QR, qdcount |-> 1,
                                      ttl |-> USub(d.ttl, timenow),
                                      an_numrrsets |-> 0, ns_numrrsets |-> 1,
                                      ar_numrrsets |-> 0, rrset_count |-> 1,
                                      rrsets |-> <<c.ck>>]],
                    n |-> c.n]

\* rrset: the key object of the locked CNAME entry
cname_msg(rrset, n, oom, timenow, q) ==
    LET d == rrset.data IN
    IF timenow > d.ttl THEN [msg |-> NullMsg, n |-> n]
    ELSE LET g == gen_dns_msg(n, oom, q, 1) IN
         IF ~g.ok THEN [msg |-> NullMsg, n |-> g.n]
         ELSE LET c == copy_rrset(rrset, g.n, oom, timenow) IN
              IF ~c.ok THEN [msg |-> NullMsg, n |-> c.n]
              ELSE [msg |-> [ok |-> TRUE, qinfo |-> q,
                             rep |-> [flags |-> BIT_QR, qdcount |-> 1,
                                      ttl |-> USub(d.ttl, timenow),
                                      an_numrrsets |-> 1, ns_numrrsets |-> 0,
                                      ar_numrrsets |-> 0, rrset_count |-> 1,
                                      rrsets |-> <<c.ck>>]],
                    n |-> c.n]

\* the CNAME of synth_dname_msg with the TTL of the DNAME copied into it
SynthCname_dnamettl(rrset, q, newname, newlen) ==
    [rk |-> [dname |-> q.qname, dname_len |-> q.qname_len,
             type |-> htons(LDNS_RR_TYPE_CNAME),
             rrset_class |-> rrset.rk.rrset_class, flags |-> 0],
     data |-> [ttl |-> rrset.data.ttl, count |-> 1, rrsig_count |-> 0,
               trust |-> rrset_trust_ans_noAA,
               rr_len |-> <<newlen + 2>>,
               rr_ttl |-> <<rrset.data.ttl>>,
               rr_data |-> <<ldns_write_uint16(newlen) \o newname>>]]

\* the CNAME RRset made by synth_dname_msg; id and security are not written
SynthCname(rrset, q, newname, newlen) ==
    [rk |-> [dname |-> q.qname, dname_len |-> q.qname_len,
             type |-> htons(LDNS_RR_TYPE_CNAME),
             rrset_class |-> rrset.rk.rrset_class, flags |-> 0],
     data |-> [ttl |-> 0, count |-> 1, rrsig_count |-> 0,
               trust |-> rrset_trust_ans_noAA,
               rr_len |-> <<newlen + 2>>,
               rr_ttl |-> <<0>>,
               rr_data |-> <<ldns_write_uint16(newlen) \o newname>>]]

\* synth_dname_msg taking a name of LDNS_MAX_DOMAINLEN bytes as too long
synth_dname_msg_offbyone(rrset, n, oom, timenow, q) ==
    LET d == rrset.data IN
    IF timenow > d.ttl THEN [msg |-> NullMsg, n |-> n]
    ELSE LET g == gen_dns_msg(n, oom, q, 2) IN
    IF ~g.ok THEN [msg |-> NullMsg, n |-> g.n]
    ELSE LET c == copy_rrset(rrset, g.n, oom, timenow) IN
    IF ~c.ok THEN [msg |-> NullMsg, n |-> c.n]
    ELSE LET t == get_cname_target(rrset)
             rep1 == [flags |-> BIT_QR, qdcount |-> 1,
                      ttl |-> USub(d.ttl, timenow),
                      an_numrrsets |-> 1, ns_numrrsets |-> 0,
                      ar_numrrsets |-> 0, rrset_count |-> 1,
                      rrsets |-> <<c.ck>>]
         IN
    IF ~t.ok THEN [msg |-> NullMsg, n |-> c.n]
    ELSE LET newlen == q.qname_len + t.dname_len - rrset.rk.dname_len IN
    IF newlen >= LDNS_MAX_DOMAINLEN
    THEN [msg |-> [ok |-> TRUE, qinfo |-> q,
                   rep |-> [rep1 EXCEPT
                              !.flags = BitOr(@, LDNS_RCODE_YXDOMAIN)]],
          n |-> c.n]
    ELSE \* allocations: newname, ck, ck->rk.dname, newd
    IF ~AllocsOk(c.n, 4, oom)
    THEN [msg |-> NullMsg, n |-> c.n + AllocsDone(c.n, 4, oom)]
    ELSE LET newname == SubSeq(q.qname, 1, q.qname_len - rrset.rk.dname_len)
                          \o t.dname
         IN  [msg |-> [ok |-> TRUE, qinfo |-> q,
                       rep |-> [rep1 EXCEPT
                           !.rrsets = @ \o <<SynthCname(rrset, q, newname, newlen)>>,
                           !.ttl = 0,
                           !.an_numrrsets = @ + 1,
                           !.rrset_count = @ + 1]],
              n |-> c.n + 4]

\* rrset: the key object of the locked DNAME entry
synth_dname_msg(rrset, n, oom, timenow, q) ==
    LET d == rrset.data IN
    IF timenow > d.ttl THEN [msg |-> NullMsg, n |-> n]
    ELSE LET g == gen_dns_msg(n, oom, q, 2) IN
    IF ~g.ok THEN [msg |-> NullMsg, n |-> g.n]
    ELSE LET c == copy_rrset(rrset, g.n, oom, timenow) IN
    IF ~c.ok THEN [msg |-> NullMsg, n |-> c.n]
    ELSE LET t == get_cname_target(rrset)
             rep1 == [flags |-> BIT_QR, qdcount |-> 1,
                      ttl |-> USub(d.ttl, timenow),
                      an_numrrsets |-> 1, ns_numrrsets |-> 0,
                      ar_numrrsets |-> 0, rrset_count |-> 1,
                      rrsets |-> <<c.ck>>]
         IN
    IF ~t.ok THEN [msg |-> NullMsg, n |-> c.n]
    ELSE LET newlen == q.qname_len + t.dname_len - rrset.rk.dname_len IN
    IF newlen > LDNS_MAX_DOMAINLEN
    THEN [msg |-> [ok |-> TRUE, qinfo |-> q,
                   rep |-> [rep1 EXCEPT
                              !.flags = BitOr(@, LDNS_RCODE_YXDOMAIN)]],
          n |-> c.n]
    ELSE \* allocations: newname, ck, ck->rk.dname, newd
    IF ~AllocsOk(c.n, 4, oom)
    THEN [msg |-> NullMsg, n |-> c.n + AllocsDone(c.n, 4, oom)]
    ELSE LET newname == SubSeq(q.qname, 1, q.qname_len - rrset.rk.dname_len)
                          \o t.dname
         IN  [msg |-> [ok |-> TRUE, qinfo |-> q,
                       rep |-> [rep1 EXCEPT
                           !.rrsets = @ \o <<SynthCname(rrset, q, newname, newlen)>>,
                           !.ttl = 0,
                           !.an_numrrsets = @ + 1,
                           !.rrset_count = @ + 1]],
              n |-> c.n + 4]

\* the loop condition of find_closest_of_type stopping before the root label
find_closest_more_noroot(qnamelen) == qnamelen > 1

\* the loop condition of find_closest_of_type: labels are left to look at
find_closest_more(qnamelen) == qnamelen > 0

\* find_closest_of_type goes up one label: qname and qnamelen after the miss
find_closest_up(qname, qnamelen) ==
    LET lablen == qname[1] IN
    [qname |-> SubSeq(qname, lablen + 2, Len(qname)),
     qnamelen |-> qnamelen - (lablen + 1)]

\* what a call found when it looked: the key rrset (NoKey on a miss or an
\* expired entry) that rrset_cache_lookup gave for name and type, and the
\* entry read under its lock
Seen(step, type, name, rrset, cache) ==
    [step |-> step, type |-> type, name |-> name, rrset |-> rrset,
     entry |-> IF rrset = NoKey THEN NoKey ELSE Entry(cache, rrset)]

\* what a call found in the message cache: the entry (NoQuery on a miss),
\* whether its reply had expired, whether all its references could be locked
SeenMsg(cache, msgs, e, timenow) ==
    [step |-> "msg", entry |-> e,
     expired |-> e # NoQuery /\ timenow > msgs[e].ttl,
     live |-> e # NoQuery
              /\ rrset_array_lock(cache, msgs[e].ref, msgs[e].rrset_count,
                                  timenow)]

\* A call of dns_cache_lookup holds no lock between the message lookup and
\* the first rrset_cache_lookup, nor between two rrset_cache_lookups: it is
\* taken in steps.  A step gives the place pc the call goes on at ("done":
\* it has returned) and its locals l: the query q, the allocations oom that
\* fail, the time now read at the start, the number n of allocations made,
\* qname and qnamelen of find_closest_of_type, what the lookups made so far
\* found (seen), the result res.

NoResult == [msg |-> NullMsg, path |-> "none", n |-> 0]

\* the call returns msg, made on the way path
lookup_return(l, seen, msg, path, n) ==
    [pc |-> "done",
     l |-> [l EXCEPT !.n = n, !.seen = Append(@, seen),
                     !.res = [msg |-> msg, path |-> path, n |-> n]]]

\* the call goes on at p
lookup_goto(l, seen, p, n) ==
    [pc |-> p, l |-> [l EXCEPT !.n = n, !.seen = Append(@, seen)]]

\* the call starts: now is read
lookup_start(q, oom, timenow) ==
    [pc |-> "lookup_msg",
     l |-> [q |-> q, oom |-> oom, now |-> timenow, n |-> 0,
            qname |-> q.qname, qnamelen |-> q.qname_len, seen |-> <<>>,
            res |-> NoResult]]

\* slabhash_lookup and tomsg: the stored message is served, or the call goes
\* on to the DNAMEs with the message entry unlocked
lookup_msg(cache, msgs, l) ==
    LET made(e, m) ==
            IF m.msg.ok
            THEN lookup_return(l, SeenMsg(cache, msgs, e, l.now), m.msg,
                               "msg", m.n)
            ELSE lookup_goto(l, SeenMsg(cache, msgs, e, l.now),
                             IF find_closest_more(l.qnamelen)
                             THEN "lookup_dname" ELSE "lookup_cname", m.n)
        found(e) ==
            made(e, IF e # NoQuery
                    THEN tomsg(cache, e, msgs[e], 0, l.oom, l.now)
                    ELSE [msg |-> NullMsg, n |-> 0])
    IN  found(slabhash_lookup(msgs, l.q))

\* one rrset_cache_lookup of find_closest_of_type for the DNAME: on a hit
\* synth_dname_msg makes the reply from the locked entry (the call goes on
\* to the CNAME when it gives NULL), on a miss the search goes up one label
lookup_dname(cache, l) ==
    LET up == find_closest_up(l.qname, l.qnamelen)
        saw(dn) == Seen("dname", LDNS_RR_TYPE_DNAME, l.qname, dn, cache)
        made(dn, s) ==
            IF s.msg.ok
            THEN lookup_return(l, saw(dn), s.msg, "dname", s.n)
            ELSE lookup_goto(l, saw(dn), "lookup_cname", s.n)
        missed(g) ==
            [pc |-> g.pc,
             l |-> [g.l EXCEPT !.qname = up.qname, !.qnamelen = up.qnamelen]]
        found(dn) ==
            IF dn = NoKey
            THEN missed(lookup_goto(l, saw(dn),
                                    IF find_closest_more(up.qnamelen)
                                    THEN "lookup_dname" ELSE "lookup_cname",
                                    l.n))
            ELSE made(dn, synth_dname_msg(Entry(cache, dn), l.n, l.oom, l.now,
                                          l.q))
    IN  found(rrset_cache_lookup(cache, l.qname, l.qnamelen,
                                 LDNS_RR_TYPE_DNAME, l.q.qclass, 0, l.now))

\* rrset_cache_lookup of the CNAME at the query name, cname_msg on a hit
lookup_cname(cache, l) ==
    LET saw(cn) == Seen("cname", LDNS_RR_TYPE_CNAME, l.q.qname, cn, cache)
        made(cn, c) ==
            IF c.msg.ok
            THEN lookup_return(l, saw(cn), c.msg, "cname", c.n)
            ELSE lookup_return(l, saw(cn), NullMsg, "none", c.n)
        found(cn) ==
            made(cn, IF cn # NoKey
                     THEN cname_msg(Entry(cache, cn), l.n, l.oom, l.now, l.q)
                     ELSE [msg |-> NullMsg, n |-> l.n])
    IN  found(rrset_cache_lookup(cache, l.q.qname, l.q.qname_len,
                                 LDNS_RR_TYPE_CNAME, l.q.qclass, 0, l.now))

\* the rest of a call, from pc on, with no other thread running
RECURSIVE lookup_run(_, _, _, _)
lookup_run(cache, msgs, p, l) ==
    LET go(r) == lookup_run(cache, msgs, r.pc, r.l) IN
    IF p = "lookup_msg" THEN go(lookup_msg(cache, msgs, l))
    ELSE IF p = "lookup_dname" THEN go(lookup_dname(cache, l))
    ELSE IF p = "lookup_cname" THEN go(lookup_cname(cache, l))
    ELSE l

\* a whole call with no other thread running: gives the message (or
\* NullMsg), the step that made it and the number of region allocations
dns_cache_lookup(cache, msgs, qname, qnamelen, qtype, qclass, oom, timenow) ==
    LET go(r) == lookup_run(cache, msgs, r.pc, r.l)
    IN  go(lookup_start([qname |-> qname, qname_len |-> qnamelen,
                         qtype |-> qtype, qclass |-> qclass], oom,
                        timenow)).res

-----------------------------------------------------------------------------
(* Delegation points (iterator/iter_delegpt) *)

NoDp == [ok |-> FALSE]

\* allocation n+1
delegpt_create(n, oom) ==
    IF (n + 1) \in oom THEN [ok |-> FALSE, n |-> n + 1, dp |-> NoDp]
    ELSE [ok |-> TRUE, n |-> n + 1,
          dp |-> [ok |-> TRUE, name |-> <<>>, namelen |-> 0,
                  nslist |-> <<>>, target_list |-> <<>>]]

\* allocation n+1: the copy of the name
delegpt_set_name(dp, n, oom, name) ==
    IF (n + 1) \in oom THEN [ok |-> FALSE, n |-> n + 1, dp |-> dp]
    ELSE [ok |-> TRUE, n |-> n + 1,
          dp |-> [dp EXCEPT !.name = name, !.namelen = Len(name)]]

\* the NS records of nskey from record i on; a name costs two allocations
\* (the list element and the copy of the name) and goes to the list's front
RECURSIVE delegpt_rrset_add_ns_from(_, _, _, _, _)
delegpt_rrset_add_ns_from(dp, n, oom, nskey, i) ==
    LET d == nskey.data IN
    IF i > d.count THEN [ok |-> TRUE, n |-> n, dp |-> dp]
    ELSE IF d.rr_len[i] < 3
    THEN delegpt_rrset_add_ns_from(dp, n, oom, nskey, i + 1)
    ELSE IF dname_valid(SubSeq(d.rr_data[i], 3, d.rr_len[i]), d.rr_len[i] - 2)
            # ldns_read_uint16(d.rr_data[i])
    THEN delegpt_rrset_add_ns_from(dp, n, oom, nskey, i + 1)
    ELSE LET name == SubSeq(d.rr_data[i], 3, d.rr_len[i]) IN
         IF \E j \in 1..Len(dp.nslist) :
                query_dname_compare(dp.nslist[j].name, name) = 0
         THEN delegpt_rrset_add_ns_from(dp, n, oom, nskey, i + 1)
         ELSE IF ~AllocsOk(n, 2, oom)
         THEN [ok |-> FALSE, n |-> n + AllocsDone(n, 2, oom), dp |-> dp]
         ELSE delegpt_rrset_add_ns_from(
                  [dp EXCEPT !.nslist =
                      <<[name |-> name, namelen |-> Len(name)]>> \o @],
                  n + 2, oom, nskey, i + 1)

delegpt_rrset_add_ns(dp, n, oom, nskey) ==
    delegpt_rrset_add_ns_from(dp, n, oom, nskey, 1)

\* the addresses of akey (A or AAAA) from record i on; one allocation each
RECURSIVE delegpt_add_rrset_from(_, _, _, _, _, _)
delegpt_add_rrset_from(dp, n, oom, akey, addrlen, i) ==
    LET d == akey.data IN
    IF i > d.count THEN [ok |-> TRUE, n |-> n, dp |-> dp]
    ELSE IF d.rr_len[i] # 2 + addrlen
    THEN delegpt_add_rrset_from(dp, n, oom, akey, addrlen, i + 1)
    ELSE IF (n + 1) \in oom THEN [ok |-> FALSE, n |-> n + 1, dp |-> dp]
    ELSE delegpt_add_rrset_from(
             [dp EXCEPT !.target_list = @ \o
                 <<[name |-> akey.rk.dname, type |-> akey.rk.type,
                    addr |-> SubSeq(d.rr_data[i], 3, d.rr_len[i])]>>],
             n + 1, oom, akey, addrlen, i + 1)

delegpt_add_rrset_A(dp, n, oom, akey) ==
    delegpt_add_rrset_from(dp, n, oom, akey, 4, 1)

delegpt_add_rrset_AAAA(dp, n, oom, akey) ==
    delegpt_add_rrset_from(dp, n, oom, akey, 16, 1)

-----------------------------------------------------------------------------
(* dns_cache_find_delegation *)

\* append the copy of rrset to the section named by field sec
\* (ns_numrrsets or ar_numrrsets) of msg, unless the copy fails
AddCopy(rrset, n, oom, msg, timenow, sec) ==
    LET add(c) ==
            IF c.ok
            THEN [n |-> c.n,
                  msg |-> [msg EXCEPT !.rep.rrsets = @ \o <<c.ck>>,
                                      !.rep[sec] = @ + 1,
                                      !.rep.rrset_count = @ + 1]]
            ELSE [n |-> c.n, msg |-> msg]
    IN  add(copy_rrset(rrset, n, oom, timenow))

\* addr_to_additional counting the copy in the authority section
addr_to_additional_asauthority(rrset, n, oom, msg, timenow) ==
    AddCopy(rrset, n, oom, msg, timenow, "ns_numrrsets")

\* addr_to_additional(rrset, region, msg, now)
addr_to_additional(rrset, n, oom, msg, timenow) ==
    AddCopy(rrset, n, oom, msg, timenow, "ar_numrrsets")

\* one address type of one nameserver; st = [ok, n, dp, msg]
find_add_addr_type(cache, qclass, oom, st, timenow, hasmsg, nsname, atype) ==
    LET copied(a, m) == [ok |-> TRUE, n |-> m.n, dp |-> a.dp, msg |-> m.msg]
        added(rrset, a) ==
            IF ~a.ok
            THEN [ok |-> FALSE, n |-> a.n, dp |-> a.dp, msg |-> st.msg]
            ELSE IF hasmsg
            THEN copied(a, addr_to_additional(rrset, a.n, oom, st.msg, timenow))
            ELSE [ok |-> TRUE, n |-> a.n, dp |-> a.dp, msg |-> st.msg]
        found(akey) ==
            IF akey = NoKey THEN st
            ELSE added(Entry(cache, akey),
                       IF atype = LDNS_RR_TYPE_A
                       THEN delegpt_add_rrset_A(st.dp, st.n, oom,
                                                Entry(cache, akey))
                       ELSE delegpt_add_rrset_AAAA(st.dp, st.n, oom,
                                                   Entry(cache, akey)))
    IN  found(rrset_cache_lookup(cache, nsname.name, nsname.namelen, atype,
                                 qclass, 0, timenow))

\* the loop of find_add_addrs asking for the A RRset of a nameserver only
find_add_addrs_next_aonly(i, atype) ==
    [i |-> i + 1, atype |-> LDNS_RR_TYPE_A]

\* the loop of find_add_addrs moves on: from the A to the AAAA of nameserver
\* i, from the AAAA to the A of the next nameserver
find_add_addrs_next(i, atype) ==
    IF atype = LDNS_RR_TYPE_A THEN [i |-> i, atype |-> LDNS_RR_TYPE_AAAA]
    ELSE [i |-> i + 1, atype |-> LDNS_RR_TYPE_A]

\* find_add_ds asking for the NSEC before the DS
find_add_ds_type_nsecfirst(p) ==
    IF p = "deleg_ds" THEN LDNS_RR_TYPE_NSEC ELSE LDNS_RR_TYPE_DS

\* find_add_ds asks for the DS first, then for the NSEC
find_add_ds_type(p) ==
    IF p = "deleg_ds" THEN LDNS_RR_TYPE_DS ELSE LDNS_RR_TYPE_NSEC

\* allocations: msg, qname, rep, the rrsets array, then the copy of the NS
create_msg(qname, qnamelen, qtype, qclass, n, oom, nskey, nsdata, timenow) ==
    IF ~AllocsOk(n, 4, oom)
    THEN [n |-> n + AllocsDone(n, 4, oom), msg |-> NullMsg]
    ELSE LET made(c) ==
                 IF ~c.ok THEN [n |-> c.n, msg |-> NullMsg]
                 ELSE [n |-> c.n,
                       msg |-> [ok |-> TRUE,
                                qinfo |-> [qname |-> SubSeq(qname, 1, qnamelen),
                                           qname_len |-> qnamelen,
                                           qtype |-> qtype, qclass |-> qclass],
                                rep |-> [flags |-> BIT_QR, qdcount |-> 1,
                                         ttl |-> 0, an_numrrsets |-> 0,
                                         ns_numrrsets |-> 1, ar_numrrsets |-> 0,
                                         rrset_count |-> 1, rrsets |-> <<c.ck>>,
                                         capacity |-> 2 + nsdata.count * 2]]]
         IN  made(copy_rrset(nskey, n + 4, oom, timenow))

\* A call of dns_cache_find_delegation holds one RRset lock at a time and
\* none between two rrset_cache_lookups: it is taken in steps.  A step gives
\* the place pc the call goes on at ("done": it has returned) and its locals
\* l: the query q, the allocations oom that fail, hasmsg (the caller passed
\* a place for the referral message), the time now read at the start, the
\* number n of allocations made, qname and qnamelen of find_closest_of_type,
\* what the lookups made so far found (seen), the delegation point dp and
\* the message msg being made, the nameserver i and the address type atype
\* of find_add_addrs, the result res.

NoDelegation == [dp |-> NoDp, msg |-> NullMsg, n |-> 0]

\* the call returns NULL
deleg_return_null(l, n) ==
    [pc |-> "done",
     l |-> [l EXCEPT !.n = n, !.dp = NoDp, !.msg = NullMsg,
                     !.res = [dp |-> NoDp, msg |-> NullMsg, n |-> n]]]

\* the call returns the delegation point
deleg_return(l) ==
    [pc |-> "done",
     l |-> [l EXCEPT !.res = [dp |-> l.dp, msg |-> l.msg, n |-> l.n]]]

\* find_add_addrs is called: it returns at once for an empty nslist
deleg_addrs(l) ==
    IF Len(l.dp.nslist) = 0 THEN deleg_return(l)
    ELSE [pc |-> "deleg_addr",
          l |-> [l EXCEPT !.i = 1, !.atype = LDNS_RR_TYPE_A]]

\* the call starts: now is read
deleg_start(q, oom, hasmsg, timenow) ==
    LET l == [q |-> q, oom |-> oom, hasmsg |-> hasmsg, now |-> timenow,
              n |-> 0, qname |-> q.qname, qnamelen |-> q.qname_len,
              seen |-> <<>>, dp |-> NoDp, msg |-> NullMsg, i |-> 0,
              atype |-> 0, res |-> NoDelegation]
    IN  IF find_closest_more(q.qname_len) THEN [pc |-> "deleg_ns", l |-> l]
        ELSE deleg_return_null(l, 0)

\* the delegation point and the message made from the locked NS entry, the
\* call giving up when delegpt_rrset_add_ns fails
deleg_from_ns_addnsfatal(l, ns) ==
    LET with_ns(m, a) ==
            IF ~a.ok THEN deleg_return_null(l, a.n)
            ELSE LET g == [l EXCEPT !.n = a.n, !.dp = a.dp, !.msg = m.msg]
                 IN  IF l.hasmsg THEN [pc |-> "deleg_ds", l |-> g]
                     ELSE deleg_addrs(g)
        with_msg(sn, m) ==
            IF l.hasmsg /\ ~m.msg.ok THEN deleg_return_null(l, m.n)
            ELSE with_ns(m, delegpt_rrset_add_ns(sn.dp, m.n, l.oom, ns))
        with_name(sn) ==
            IF ~sn.ok THEN deleg_return_null(l, sn.n)
            ELSE with_msg(sn,
                     IF l.hasmsg
                     THEN create_msg(l.q.qname, l.q.qname_len, l.q.qtype,
                                     l.q.qclass, sn.n, l.oom, ns, ns.data,
                                     l.now)
                     ELSE [n |-> sn.n, msg |-> NullMsg])
        with_dp(c) ==
            with_name(IF c.ok
                      THEN delegpt_set_name(c.dp, c.n, l.oom, ns.rk.dname)
                      ELSE [ok |-> FALSE, n |-> c.n, dp |-> NoDp])
    IN  with_dp(delegpt_create(0, l.oom))

\* the delegation point and the message made from the locked NS entry ns:
\* delegpt_create, delegpt_set_name, create_msg when a message is asked for
\* (NULL is returned when one of them fails), delegpt_rrset_add_ns (its
\* failure is logged); then the entry is unlocked
deleg_from_ns(l, ns) ==
    LET with_ns(m, a) ==
            LET g == [l EXCEPT !.n = a.n, !.dp = a.dp, !.msg = m.msg]
            IN  IF l.hasmsg THEN [pc |-> "deleg_ds", l |-> g]
                ELSE deleg_addrs(g)
        with_msg(sn, m) ==
            IF l.hasmsg /\ ~m.msg.ok THEN deleg_return_null(l, m.n)
            ELSE with_ns(m, delegpt_rrset_add_ns(sn.dp, m.n, l.oom, ns))
        with_name(sn) ==
            IF ~sn.ok THEN deleg_return_null(l, sn.n)
            ELSE with_msg(sn,
                     IF l.hasmsg
                     THEN create_msg(l.q.qname, l.q.qname_len, l.q.qtype,
                                     l.q.qclass, sn.n, l.oom, ns, ns.data,
                                     l.now)
                     ELSE [n |-> sn.n, msg |-> NullMsg])
        with_dp(c) ==
            with_name(IF c.ok
                      THEN delegpt_set_name(c.dp, c.n, l.oom, ns.rk.dname)
                      ELSE [ok |-> FALSE, n |-> c.n, dp |-> NoDp])
    IN  with_dp(delegpt_create(0, l.oom))

\* one rrset_cache_lookup of find_closest_of_type for the NS: on a hit the
\* delegation point is made, on a miss the search goes up one label and the
\* call returns NULL when no label is left
deleg_ns(cache, l) ==
    LET up == find_closest_up(l.qname, l.qnamelen)
        saw(nskey) ==
            [l EXCEPT !.seen = Append(@, Seen("ns", LDNS_RR_TYPE_NS, l.qname,
                                              nskey, cache))]
        found(nskey) ==
            IF nskey = NoKey
            THEN IF find_closest_more(up.qnamelen)
                 THEN [pc |-> "deleg_ns",
                       l |-> [saw(nskey) EXCEPT !.qname = up.qname,
                                                !.qnamelen = up.qnamelen]]
                 ELSE deleg_return_null(
                          [saw(nskey) EXCEPT !.qname = up.qname,
                                             !.qnamelen = up.qnamelen], 0)
            ELSE deleg_from_ns(saw(nskey), Entry(cache, nskey))
    IN  found(rrset_cache_lookup(cache, l.qname, l.qnamelen, LDNS_RR_TYPE_NS,
                                 l.q.qclass, 0, l.now))

\* one rrset_cache_lookup of find_add_ds at the delegation point: the DS
\* (p = "deleg_ds"), then the NSEC (p = "deleg_nsec") when there is no DS;
\* the entry found is copied to the authority section
deleg_ds(cache, p, l) ==
    LET type == find_add_ds_type(p)
        saw(rrset) ==
            [l EXCEPT !.seen = Append(@, Seen("ds", type, l.dp.name, rrset,
                                              cache))]
        copied(rrset, c) ==
            deleg_addrs([saw(rrset) EXCEPT !.n = c.n, !.msg = c.msg])
        found(rrset) ==
            IF rrset # NoKey
            THEN copied(rrset, AddCopy(Entry(cache, rrset), l.n, l.oom, l.msg,
                                       l.now, "ns_numrrsets"))
            ELSE IF p = "deleg_ds"
            THEN [pc |-> "deleg_nsec", l |-> saw(rrset)]
            ELSE deleg_addrs(saw(rrset))
    IN  found(rrset_cache_lookup(cache, l.dp.name, l.dp.namelen, type,
                                 l.msg.qinfo.qclass, 0, l.now))

\* one rrset_cache_lookup of find_add_addrs: the A or the AAAA of nameserver
\* i.  When delegpt_add_rrset_A or _AAAA fails find_add_addrs returns 0,
\* which is logged, and the call returns what it has
deleg_addr(cache, l) ==
    LET ns == l.dp.nslist[l.i]
        nx == find_add_addrs_next(l.i, l.atype)
        saw(akey) ==
            [l EXCEPT !.seen = Append(@, Seen("addr", l.atype, ns.name, akey,
                                              cache))]
        added(g, s) ==
            LET h == [g EXCEPT !.n = s.n, !.dp = s.dp, !.msg = s.msg] IN
            IF ~s.ok THEN deleg_return(h)
            ELSE IF nx.i > Len(s.dp.nslist) THEN deleg_return(h)
            ELSE [pc |-> "deleg_addr",
                  l |-> [h EXCEPT !.i = nx.i, !.atype = nx.atype]]
        found(akey) ==
            added(saw(akey),
                  find_add_addr_type(cache, l.q.qclass, l.oom,
                      [ok |-> TRUE, n |-> l.n, dp |-> l.dp, msg |-> l.msg],
                      l.now, l.hasmsg, ns, l.atype))
    IN  found(rrset_cache_lookup(cache, ns.name, ns.namelen, l.atype,
                                 l.q.qclass, 0, l.now))

\* the rest of a call, from pc on, with no other thread running
RECURSIVE deleg_run(_, _, _)
deleg_run(cache, p, l) ==
    LET go(r) == deleg_run(cache, r.pc, r.l) IN
    IF p = "deleg_ns" THEN go(deleg_ns(cache, l))
    ELSE IF p \in {"deleg_ds", "deleg_nsec"} THEN go(deleg_ds(cache, p, l))
    ELSE IF p = "deleg_addr" THEN go(deleg_addr(cache, l))
    ELSE l

\* a whole call with no other thread running
dns_cache_find_delegation(cache, qname, qnamelen, qtype, qclass, oom, hasmsg, timenow) ==
    LET go(r) == deleg_run(cache, r.pc, r.l)
    IN  go(deleg_start([qname |-> qname, qname_len |-> qnamelen,
                        qtype |-> qtype, qclass |-> qclass], oom, hasmsg,
                       timenow)).res

-----------------------------------------------------------------------------
(* Operations on the caches.  Calls of dns_cache_store_msg, dns_cache_lookup
   and dns_cache_find_delegation are made by callers that run at the same
   time: a step of a call is one access of a cache under the lock of the
   entry, and between two steps of a call the other caller and the caches
   take steps of their own. *)

EmptyCache == [k \in {} |-> 0]

threadvars == <<pc, loc, held, lockerr>>

\* one caller looks up, the other stores
Callers == {"reader", "writer"}

NoCall == [op |-> "none"]

\* the call of caller c goes on at r.pc with the locals r.l, or it has
\* returned, which leaves the record done in last
Goes(c, r, done) ==
    /\ pc' = [pc EXCEPT ![c] = IF r.pc = "done" THEN "idle" ELSE r.pc]
    /\ loc' = [loc EXCEPT ![c] = IF r.pc = "done" THEN NoCall ELSE r.l]
    /\ last' = IF r.pc = "done" THEN done ELSE [op |-> "step", by |-> c]

StoreDone(l) ==
    [op |-> "store", q |-> l.q, rep |-> l.given, now |-> l.now,
     stored |-> l.stored]

LookupDone(l) ==
    [op |-> "lookup", q |-> l.q, oom |-> l.oom, now |-> l.now,
     seen |-> l.seen, res |-> l.res]

DelegDone(l) ==
    [op |-> "find_delegation", q |-> l.q, oom |-> l.oom,
     hasmsg |-> l.hasmsg, now |-> l.now, qnamelen |-> l.qnamelen,
     seen |-> l.seen, res |-> l.res]

\* dns_cache_store_msg(env, q, hash, rep) is called
StoreCall(c, q, rep, mallocok) ==
    /\ pc[c] = "idle"
    /\ \E r \in {store_msg_start(q, rep, now, mallocok)} :
           Goes(c, r, StoreDone(r.l))
    /\ UNCHANGED <<rrset_cache, msg_cache, idctr, now, held, lockerr>>

\* store_rrsets: rrset_cache_update for one RRset of the reply
StoreRRset(c) ==
    /\ pc[c] = "store_rrsets"
    /\ \E r \in {store_msg_rrset(rrset_cache, idctr, loc[c])} :
           /\ r.ctr <= MaxId
           /\ rrset_cache' = r.cache
           /\ idctr' = r.ctr
           /\ Goes(c, r, StoreDone(r.l))
    /\ UNCHANGED <<msg_cache, now, held, lockerr>>

\* slabhash_insert of the entry
StoreInsert(c) ==
    /\ pc[c] = "store_insert"
    /\ \E r \in {store_msg_insert_entry(msg_cache, loc[c])} :
           /\ msg_cache' = r.msgs
           /\ Goes(c, r, StoreDone(r.l))
    /\ UNCHANGED <<rrset_cache, idctr, now, held, lockerr>>

\* rrset_cache_update(env->rrset_cache, ref, alloc, now) by another module;
\* k holds relative TTLs, made absolute by the caller
RRsetUpdate(k) ==
    \E u \in {rrset_cache_update(rrset_cache, idctr,
                    [k EXCEPT !.data = packed_rrset_ttl_add(@, now)], now)} :
        /\ u.ctr <= MaxId
        /\ rrset_cache' = u.cache
        /\ idctr' = u.ctr
        /\ last' = [op |-> "update"]
        /\ UNCHANGED <<msg_cache, now, threadvars>>

\* the cache evicts an RRset entry (ub_rrset_key_delete, rrset_data_delete)
EvictRRset(rk) ==
    /\ rk \in DOMAIN rrset_cache
    /\ rrset_cache' = [x \in DOMAIN rrset_cache \ {rk} |-> rrset_cache[x]]
    /\ last' = [op |-> "evict"]
    /\ UNCHANGED <<msg_cache, idctr, now, threadvars>>

\* the cache evicts a message entry
EvictMsg(q) ==
    /\ q \in DOMAIN msg_cache
    /\ msg_cache' = [x \in DOMAIN msg_cache \ {q} |-> msg_cache[x]]
    /\ last' = [op |-> "evict"]
    /\ UNCHANGED <<rrset_cache, idctr, now, threadvars>>

\* a second passes
Tick ==
    /\ now < MaxNow
    /\ now' = now + 1
    /\ last' = [op |-> "tick"]
    /\ UNCHANGED <<rrset_cache, msg_cache, idctr, threadvars>>

\* dns_cache_lookup(env, qname, qnamelen, qtype, qclass, region, scratch) is
\* called
LookupCall(c, q, oom) ==
    /\ pc[c] = "idle"
    /\ \E r \in {lookup_start(q, oom, now)} : Goes(c, r, LookupDone(r.l))
    /\ UNCHANGED <<rrset_cache, msg_cache, idctr, now, held, lockerr>>

\* the message step deleting the cached message it does not serve
LookupMsg_dropunserved(c) ==
    /\ pc[c] = "lookup_msg"
    /\ \E r \in {lookup_msg(rrset_cache, msg_cache, loc[c])} :
           /\ Goes(c, r, LookupDone(r.l))
           /\ msg_cache' =
                 IF r.pc # "done"
                 THEN [e \in DOMAIN msg_cache
                            \ {slabhash_lookup(msg_cache, loc[c].q)} |->
                          msg_cache[e]]
                 ELSE msg_cache
    /\ UNCHANGED <<rrset_cache, idctr, now, held, lockerr>>

\* slabhash_lookup of the message and tomsg
LookupMsg(c) ==
    /\ pc[c] = "lookup_msg"
    /\ \E r \in {lookup_msg(rrset_cache, msg_cache, loc[c])} :
           Goes(c, r, LookupDone(r.l))
    /\ UNCHANGED <<rrset_cache, msg_cache, idctr, now, held, lockerr>>

\* one rrset_cache_lookup for a DNAME, synth_dname_msg on a hit
LookupDname(c) ==
    /\ pc[c] = "lookup_dname"
    /\ \E r \in {lookup_dname(rrset_cache, loc[c])} :
           Goes(c, r, LookupDone(r.l))
    /\ UNCHANGED <<rrset_cache, msg_cache, idctr, now, held, lockerr>>

\* rrset_cache_lookup for the CNAME, cname_msg on a hit
LookupCname(c) ==
    /\ pc[c] = "lookup_cname"
    /\ \E r \in {lookup_cname(rrset_cache, loc[c])} :
           Goes(c, r, LookupDone(r.l))
    /\ UNCHANGED <<rrset_cache, msg_cache, idctr, now, held, lockerr>>

\* dns_cache_find_delegation(env, qname, qnamelen, qtype, qclass, region,
\* msg) is called
DelegCall(c, q, oom, hasmsg) ==
    /\ pc[c] = "idle"
    /\ \E r \in {deleg_start(q, oom, hasmsg, now)} :
           Goes(c, r, DelegDone(r.l))
    /\ UNCHANGED <<rrset_cache, msg_cache, idctr, now, held, lockerr>>

\* one rrset_cache_lookup for the NS; the delegation point on a hit
DelegNS(c) ==
    /\ pc[c] = "deleg_ns"
    /\ \E r \in {deleg_ns(rrset_cache, loc[c])} : Goes(c, r, DelegDone(r.l))
    /\ UNCHANGED <<rrset_cache, msg_cache, idctr, now, held, lockerr>>

\* find_add_ds: rrset_cache_lookup for the DS or for the NSEC
DelegDS(c) ==
    /\ pc[c] \in {"deleg_ds", "deleg_nsec"}
    /\ \E r \in {deleg_ds(rrset_cache, pc[c], loc[c])} :
           Goes(c, r, DelegDone(r.l))
    /\ UNCHANGED <<rrset_cache, msg_cache, idctr, now, held, lockerr>>

\* find_add_addrs: rrset_cache_lookup for one address RRset
DelegAddr(c) ==
    /\ pc[c] = "deleg_addr"
    /\ \E r \in {deleg_addr(rrset_cache, loc[c])} :
           Goes(c, r, DelegDone(r.l))
    /\ UNCHANGED <<rrset_cache, msg_cache, idctr, now, held, lockerr>>

-----------------------------------------------------------------------------
(* Names, RRsets, replies and queries used as inputs *)

nEC == <<1, 101, 1, 99, 0>>          \* e.c.
nWEC == <<1, 119>> \o nEC            \* w.e.c.
nNEC == <<1, 110>> \o nEC            \* n.e.c.
nX == <<1, 120, 0>>                  \* x.

\* a parsed RRset: key object with relative TTLs, not yet in the cache
Parsed(name, type, trust, ttls, rdatas) ==
    [rk |-> RK(name, type, LDNS_RR_CLASS_IN), id |-> 0,
     data |-> RRData(trust, ttls, rdatas, <<>>, <<>>)]

\* a parsed RRset with its signatures
Signed(name, type, trust, ttls, rdatas, sigttls, sigs) ==
    [rk |-> RK(name, type, LDNS_RR_CLASS_IN), id |-> 0,
     data |-> RRData(trust, ttls, rdatas, sigttls, sigs)]

ParsedReply(flags, ttl, an, ns, ar) ==
    [flags |-> flags, qdcount |-> 1, ttl |-> ttl,
     an_numrrsets |-> Len(an), ns_numrrsets |-> Len(ns),
     ar_numrrsets |-> Len(ar), rrset_count |-> Len(an) + Len(ns) + Len(ar),
     rrsets |-> an \o ns \o ar, ref |-> <<>>]

kA1 == Parsed(nEC, LDNS_RR_TYPE_A, rrset_trust_ans_AA, <<2>>,
              <<RData(<<192, 0, 2, 1>>)>>)
kA1z == Parsed(nEC, LDNS_RR_TYPE_A, rrset_trust_ans_AA, <<0>>,
               <<RData(<<192, 0, 2, 1>>)>>)
kA2 == Parsed(nEC, LDNS_RR_TYPE_A, rrset_trust_ans_AA, <<2>>,
              <<RData(<<192, 0, 2, 2>>)>>)
kCNw == Parsed(nWEC, LDNS_RR_TYPE_CNAME, rrset_trust_ans_AA, <<2>>,
               <<RData(nX)>>)
kNS == Parsed(nEC, LDNS_RR_TYPE_NS, rrset_trust_glue, <<1>>,
              <<RData(nNEC)>>)

qA == QInfo(nEC, LDNS_RR_TYPE_A, LDNS_RR_CLASS_IN)
qWA == QInfo(nWEC, LDNS_RR_TYPE_A, LDNS_RR_CLASS_IN)

\* e.c. A: one answer RRset
M1 == ParsedReply(BIT_QR, 2, <<kA1>>, <<>>, <<>>)
\* w.e.c. A: a CNAME to a name that does not exist, the NS set as authority
M3 == ParsedReply(BitOr(BIT_QR, LDNS_RCODE_NXDOMAIN), 1, <<kCNw>>, <<kNS>>,
                  <<>>)
\* e.c. A with TTL 0, the NS set in the authority section
M0 == ParsedReply(BIT_QR, 0, <<kA1z>>, <<kNS>>, <<>>)

StoreInputs == {<<qA, M1>>, <<qWA, M3>>, <<qA, M0>>}
UpdateInputs == {kA2}
Queries == {qA, qWA}
OomInputs == {{}, {2}}

-----------------------------------------------------------------------------
(* The caches used by a caller that looks up and a caller that stores *)

Init ==
    /\ rrset_cache = EmptyCache
    /\ msg_cache = EmptyCache
    /\ idctr = 0
    /\ now = 0
    /\ last = [op |-> "init"]
    /\ pc = [c \in Callers |-> "idle"]
    /\ loc = [c \in Callers |-> NoCall]
    /\ held = EmptyCache
    /\ lockerr = {}

DoStore == \E x \in StoreInputs, mallocok \in BOOLEAN :
              StoreCall("writer", x[1], x[2], mallocok)
DoUpdate == \E k \in UpdateInputs : RRsetUpdate(k)
DoEvictRRset == \E rk \in DOMAIN rrset_cache : EvictRRset(rk)
DoEvictMsg == \E q \in DOMAIN msg_cache : EvictMsg(q)
DoLookup == \E q \in Queries, oom \in OomInputs : LookupCall("reader", q, oom)
DoFindDelegation == \E hasmsg \in BOOLEAN :
                       DelegCall("reader", qWA, {}, hasmsg)

\* the steps of the calls in progress
StoreSteps == StoreRRset("writer") \/ StoreInsert("writer")
LookupSteps ==
    LookupMsg("reader") \/ LookupDname("reader") \/ LookupCname("reader")
DelegSteps == DelegNS("reader") \/ DelegDS("reader") \/ DelegAddr("reader")

Next ==
    \/ DoStore
    \/ StoreSteps
    \/ DoUpdate
    \/ DoEvictRRset
    \/ DoEvictMsg
    \/ Tick
    \/ DoLookup
    \/ LookupSteps
    \/ DoFindDelegation
    \/ DelegSteps

Spec == Init /\ [][Next]_vars

-----------------------------------------------------------------------------
(* The RRset cache with DNAME and CNAME entries, looked up by one thread *)

\* a name of 197 bytes under e.c.
nLong == Label(63, 97) \o Label(63, 97) \o Label(63, 97) \o nEC
\* targets of 63 and of 64 bytes: the rewritten nLong has 255 and 256 bytes
nT63 == Label(61, 98) \o <<0>>
nT64 == Label(62, 98) \o <<0>>

kDN == Parsed(nEC, LDNS_RR_TYPE_DNAME, rrset_trust_ans_AA, <<2>>,
              <<RData(nX)>>)
kDN63 == Parsed(nEC, LDNS_RR_TYPE_DNAME, rrset_trust_ans_AA, <<2>>,
                <<RData(nT63)>>)
kDN64 == Parsed(nEC, LDNS_RR_TYPE_DNAME, rrset_trust_ans_AA, <<2>>,
                <<RData(nT64)>>)
\* the length header says 4 bytes, the rdata has 3
kDNbad == Parsed(nEC, LDNS_RR_TYPE_DNAME, rrset_trust_ans_AA, <<2>>,
                 <<ldns_write_uint16(4) \o nX>>)
\* a DNAME at w.e.c. itself
kDNw == Parsed(nWEC, LDNS_RR_TYPE_DNAME, rrset_trust_ans_AA, <<1>>,
               <<RData(nX)>>)
kCNn == Parsed(nWEC, LDNS_RR_TYPE_CNAME, rrset_trust_ans_AA, <<2>>,
               <<RData(nNEC)>>)

qLong == QInfo(nLong, LDNS_RR_TYPE_A, LDNS_RR_CLASS_IN)
\* w.e.c. asked for its DNAME and for its CNAME
qWD == QInfo(nWEC, LDNS_RR_TYPE_DNAME, LDNS_RR_CLASS_IN)
qWC == QInfo(nWEC, LDNS_RR_TYPE_CNAME, LDNS_RR_CLASS_IN)

SynthUpdates == {kDN, kDN63, kDN64, kDNbad, kDNw, kCNn}
SynthQueries == {qWA, qLong, qWD, qWC}

DoSynthUpdate == \E k \in SynthUpdates : RRsetUpdate(k)
DoSynthLookup == \E q \in SynthQueries, oom \in OomInputs :
                    LookupCall("reader", q, oom)

NextSynth ==
    \/ DoSynthUpdate
    \/ DoEvictRRset
    \/ Tick
    \/ DoSynthLookup
    \/ LookupSteps

SpecSynth == Init /\ [][NextSynth]_vars

-----------------------------------------------------------------------------
(* Worker threads: the entry locks of the operations, taken step by step.
   A step is one lock_rw_rdlock or lock_rw_wrlock (the thread waits until
   the lock is free) with the code that follows it up to the next one. *)

NumThreads == 2
\* the threads of the process: NumThreads workers that run every operation
\* (SpecLocks), and as many again that store while the workers look up
\* (SpecOrder)
Threads == 1..(2 * NumThreads)
Workers == 1..NumThreads
Storers == (NumThreads + 1)..(2 * NumThreads)

\* the locks a thread holds between two steps: message entries read-locked
\* (m) and write-locked (mw), RRset entries read-locked (r) and write-locked
\* (w).  slabhash_insert takes the write lock of the entry it replaces and
\* gives it back before it returns, and asks for no other lock while it
\* holds it: the step store_msg_insert waits until the entry is free and
\* does both, so mw is empty between the steps, and a thread that writes a
\* message entry is never one that others wait for while it waits itself
NoLocks == [m |-> {}, mw |-> {}, r |-> {}, w |-> {}]

\* local variables of a thread; walked counts the turns of the loop of
\* find_closest_of_type the call has made
NoLoc == [op |-> "none", q |-> NoQuery, e |-> NoQuery, i |-> 0,
          name |-> <<>>, key |-> NoKey, rep |-> <<>>, atype |-> 0,
          hasmsg |-> FALSE, nslist |-> <<>>, ttl |-> 0, walked |-> 0]

\* the lock of an entry can be taken by thread t for reading, for writing
MsgRdFree(e, t) == \A u \in Threads \ {t} : e \notin held[u].mw
MsgWrFree(e, t) ==
    \A u \in Threads \ {t} : e \notin held[u].mw /\ e \notin held[u].m
RRsetRdFree(k, t) == \A u \in Threads \ {t} : k \notin held[u].w
RRsetWrFree(k, t) ==
    \A u \in Threads \ {t} : k \notin held[u].w /\ k \notin held[u].r

\* the keys of the first count references
RefKeys(ref, count) == {ref[i].key : i \in 1..count}

\* rrset_array_unlock and rrset_array_unlock_touch: the locks left
rrset_array_unlock(h, ref, count) ==
    [h EXCEPT !.r = @ \ RefKeys(ref, count)]

\* lockerr after the thread doing op unlocks the locks ls of the locks hs
\* it holds
Unlocked(op, ls, hs) == IF ls \subseteq hs THEN lockerr ELSE lockerr \cup {op}

Idle(t) ==
    /\ pc' = [pc EXCEPT ![t] = "idle"]
    /\ loc' = [loc EXCEPT ![t] = NoLoc]

Goto(t, p, l) ==
    /\ pc' = [pc EXCEPT ![t] = p]
    /\ loc' = [loc EXCEPT ![t] = l]

cachevars == <<rrset_cache, msg_cache, idctr, now, last>>

\* the step after the rrset_cache_lookup of the name l.name in the loop of
\* find_closest_of_type returned NULL: the front label is snipped off, the
\* loop goes on at more while a name is left and ends at done after the root
SnipLabel(t, l, more, done) ==
    LET up == find_closest_up(l.name, Len(l.name))
    IN  Goto(t, IF find_closest_more(up.qnamelen) THEN more ELSE done,
             [l EXCEPT !.name = up.qname, !.walked = @ + 1])

\* dns_cache_lookup is called: slabhash_lookup read-locks the message
\* entry, if there is one
dns_cache_lookup_msg(t, q) ==
    /\ pc[t] = "idle"
    /\ LET l == [NoLoc EXCEPT !.op = "lookup", !.q = q]
           e == slabhash_lookup(msg_cache, q)
       IN  IF e = NoQuery
           THEN /\ Goto(t, "lk_dname", [l EXCEPT !.name = q.qname])
                /\ UNCHANGED held
           ELSE /\ MsgRdFree(e, t)
                /\ Goto(t, "tomsg", [l EXCEPT !.e = e])
                /\ held' = [held EXCEPT ![t].m = @ \cup {e}]
    /\ UNCHANGED <<cachevars, lockerr>>

\* tomsg_check with dns_cache_lookup going on to the DNAME lookup without
\* the unlock of the entry of an expired message
tomsg_check_keepmsg(t) ==
    /\ pc[t] = "tomsg"
    /\ LET l == loc[t]
           r == msg_cache[l.e]
       IN  \E genok \in BOOLEAN :
             IF now > r.ttl \/ ~genok
             THEN /\ UNCHANGED <<held, lockerr>>
                  /\ Goto(t, "lk_dname", [l EXCEPT !.name = l.q.qname,
                                                   !.e = NoQuery])
             ELSE /\ Goto(t, IF r.rrset_count = 0 THEN "tomsg_copy"
                             ELSE "array_lock", [l EXCEPT !.i = 1])
                  /\ UNCHANGED <<held, lockerr>>
    /\ UNCHANGED cachevars

\* tomsg checks the TTL of the message and gets the message from the
\* region (genok); when it returns NULL dns_cache_lookup unlocks the entry
tomsg_check(t) ==
    /\ pc[t] = "tomsg"
    /\ LET l == loc[t]
           r == msg_cache[l.e]
       IN  \E genok \in BOOLEAN :
             IF now > r.ttl \/ ~genok
             THEN /\ held' = [held EXCEPT ![t].m = @ \ {l.e}]
                  /\ lockerr' = Unlocked("lookup", {l.e}, held[t].m)
                  /\ Goto(t, "lk_dname", [l EXCEPT !.name = l.q.qname,
                                                   !.e = NoQuery])
             ELSE /\ Goto(t, IF r.rrset_count = 0 THEN "tomsg_copy"
                             ELSE "array_lock", [l EXCEPT !.i = 1])
                  /\ UNCHANGED <<held, lockerr>>
    /\ UNCHANGED cachevars

\* the step of rrset_array_lock with dns_cache_lookup leaving the message
\* entry locked when tomsg returns NULL
tomsg_array_lock_keepmsg(t) ==
    /\ pc[t] = "array_lock"
    /\ LET l == loc[t]
           r == msg_cache[l.e]
           ref == r.ref[l.i]
       IN  /\ ref.key \in DOMAIN rrset_cache => RRsetRdFree(ref.key, t)
           /\ IF RefLive(rrset_cache, ref, now)
              THEN /\ held' = [held EXCEPT ![t].r = @ \cup {ref.key}]
                   /\ Goto(t, IF l.i = r.rrset_count THEN "tomsg_copy"
                              ELSE "array_lock", [l EXCEPT !.i = l.i + 1])
                   /\ UNCHANGED lockerr
              ELSE /\ held' = [held EXCEPT
                         ![t] = rrset_array_unlock(@, r.ref, l.i)]
                   /\ UNCHANGED lockerr
                   /\ Goto(t, "lk_dname", [l EXCEPT !.name = l.q.qname,
                                                    !.e = NoQuery, !.i = 0])
    /\ UNCHANGED cachevars

\* rrset_array_lock taking the read lock of an entry without the check of
\* its id
tomsg_array_lock_noverify(t) ==
    /\ pc[t] = "array_lock"
    /\ LET l == loc[t]
           r == msg_cache[l.e]
           ref == r.ref[l.i]
       IN  /\ ref.key \in DOMAIN rrset_cache => RRsetRdFree(ref.key, t)
           /\ IF ref.key \in DOMAIN rrset_cache
              THEN /\ held' = [held EXCEPT ![t].r = @ \cup {ref.key}]
                   /\ Goto(t, IF l.i = r.rrset_count THEN "tomsg_copy"
                              ELSE "array_lock", [l EXCEPT !.i = l.i + 1])
                   /\ UNCHANGED lockerr
              ELSE /\ held' = [held EXCEPT
                         ![t] = [rrset_array_unlock(@, r.ref, l.i)
                                   EXCEPT !.m = @ \ {l.e}]]
                   /\ lockerr' = Unlocked("lookup", {l.e}, held[t].m)
                   /\ Goto(t, "lk_dname", [l EXCEPT !.name = l.q.qname,
                                                    !.e = NoQuery, !.i = 0])
    /\ UNCHANGED cachevars

\* rrset_array_lock: the read lock of reference i is taken, the id and the
\* TTL are checked; on a mismatch the locks taken are released, tomsg
\* returns NULL and dns_cache_lookup unlocks the message entry
tomsg_array_lock(t) ==
    /\ pc[t] = "array_lock"
    /\ LET l == loc[t]
           r == msg_cache[l.e]
           ref == r.ref[l.i]
       IN  /\ ref.key \in DOMAIN rrset_cache => RRsetRdFree(ref.key, t)
           /\ IF RefLive(rrset_cache, ref, now)
              THEN /\ held' = [held EXCEPT ![t].r = @ \cup {ref.key}]
                   /\ Goto(t, IF l.i = r.rrset_count THEN "tomsg_copy"
                              ELSE "array_lock", [l EXCEPT !.i = l.i + 1])
                   /\ UNCHANGED lockerr
              ELSE /\ held' = [held EXCEPT
                         ![t] = [rrset_array_unlock(@, r.ref, l.i)
                                   EXCEPT !.m = @ \ {l.e}]]
                   /\ lockerr' = Unlocked("lookup", {l.e}, held[t].m)
                   /\ Goto(t, "lk_dname", [l EXCEPT !.name = l.q.qname,
                                                    !.e = NoQuery, !.i = 0])
    /\ UNCHANGED cachevars

\* the RRsets are copied (copyok: the region has the memory), the RRset
\* locks are released, tomsg returns and dns_cache_lookup unlocks the
\* message entry
tomsg_copy_unlock(t) ==
    /\ pc[t] = "tomsg_copy"
    /\ LET l == loc[t]
           r == msg_cache[l.e]
       IN  /\ held' = [held EXCEPT
                 ![t] = [rrset_array_unlock(@, r.ref, r.rrset_count)
                           EXCEPT !.m = @ \ {l.e}]]
           /\ lockerr' = Unlocked("lookup",
                             RefKeys(r.ref, r.rrset_count) \cup {l.e},
                             held[t].r \cup held[t].m)
           /\ \E copyok \in BOOLEAN :
                IF copyok THEN Idle(t)
                ELSE Goto(t, "lk_dname", [l EXCEPT !.name = l.q.qname,
                                                   !.e = NoQuery, !.i = 0])
    /\ UNCHANGED cachevars

\* one turn of the loop of find_closest_of_type for the DNAME: the
\* rrset_cache_lookup of the name l.name.  An entry is read-locked; if it
\* has not expired it is returned locked, else it is unlocked again.
\* Without an entry to return the front label is snipped off; after the
\* root dns_cache_lookup goes on to the CNAME
dns_cache_lookup_dname(t) ==
    /\ pc[t] = "lk_dname"
    /\ LET l == loc[t]
           s == StoredKey(rrset_cache,
                    LookupKey(l.name, Len(l.name), LDNS_RR_TYPE_DNAME,
                              l.q.qclass, 0))
       IN  IF s = NoKey
           THEN SnipLabel(t, l, "lk_dname", "lk_cname") /\ UNCHANGED held
           ELSE /\ RRsetRdFree(s, t)
                /\ IF rrset_cache[s].data.ttl > now
                   THEN /\ held' = [held EXCEPT ![t].r = @ \cup {s}]
                        /\ Goto(t, "lk_synth", [l EXCEPT !.key = s,
                                                         !.name = <<>>,
                                                         !.walked = @ + 1])
                   ELSE /\ SnipLabel(t, l, "lk_dname", "lk_cname")
                        /\ UNCHANGED held
    /\ UNCHANGED <<cachevars, lockerr>>

\* synth_dname_msg with the DNAME entry locked, then the unlock; allocok:
\* the region has the memory
dns_cache_lookup_synth(t) ==
    /\ pc[t] = "lk_synth"
    /\ LET l == loc[t]
           rrset == Entry(rrset_cache, l.key)
       IN  /\ held' = [held EXCEPT ![t].r = @ \ {l.key}]
           /\ lockerr' = Unlocked("lookup", {l.key}, held[t].r)
           /\ \E allocok \in BOOLEAN :
                IF /\ allocok
                   /\ ~(now > rrset.data.ttl)
                   /\ get_cname_target(rrset).ok
                THEN Idle(t)
                ELSE Goto(t, "lk_cname", [l EXCEPT !.key = NoKey])
    /\ UNCHANGED cachevars

\* rrset_cache_lookup of the CNAME at qname
dns_cache_lookup_cname(t) ==
    /\ pc[t] = "lk_cname"
    /\ LET l == loc[t]
           s == StoredKey(rrset_cache,
                    LookupKey(l.q.qname, l.q.qname_len, LDNS_RR_TYPE_CNAME,
                              l.q.qclass, 0))
       IN  IF s = NoKey
           THEN Idle(t) /\ UNCHANGED held
           ELSE /\ RRsetRdFree(s, t)
                /\ IF rrset_cache[s].data.ttl > now
                   THEN /\ held' = [held EXCEPT ![t].r = @ \cup {s}]
                        /\ Goto(t, "lk_cnamemsg", [l EXCEPT !.key = s])
                   ELSE Idle(t) /\ UNCHANGED held
    /\ UNCHANGED <<cachevars, lockerr>>

\* cname_msg with the CNAME entry locked, then the unlock; the message or
\* NULL is returned
dns_cache_lookup_cnamemsg(t) ==
    /\ pc[t] = "lk_cnamemsg"
    /\ held' = [held EXCEPT ![t].r = @ \ {loc[t].key}]
    /\ lockerr' = Unlocked("lookup", {loc[t].key}, held[t].r)
    /\ Idle(t)
    /\ UNCHANGED cachevars

\* dns_cache_find_delegation is called (idle) or is in the loop of
\* find_closest_of_type for the NS (fd_ns): one turn of the loop, the
\* rrset_cache_lookup of the name l.name.  An entry that has not expired is
\* returned read-locked; else the front label is snipped off, and after the
\* root the call returns NULL
find_delegation_ns(t, q, hasmsg) ==
    /\ pc[t] \in {"idle", "fd_ns"}
    /\ pc[t] = "fd_ns" => (q = loc[t].q /\ hasmsg = loc[t].hasmsg)
    /\ LET l == IF pc[t] = "idle"
                THEN [NoLoc EXCEPT !.op = "find_delegation", !.q = q,
                                   !.hasmsg = hasmsg, !.name = q.qname]
                ELSE loc[t]
           s == StoredKey(rrset_cache,
                    LookupKey(l.name, Len(l.name), LDNS_RR_TYPE_NS,
                              l.q.qclass, 0))
           up == find_closest_up(l.name, Len(l.name))
           miss == IF find_closest_more(up.qnamelen)
                   THEN Goto(t, "fd_ns", [l EXCEPT !.name = up.qname,
                                                   !.walked = @ + 1])
                   ELSE Idle(t)
       IN  IF s = NoKey
           THEN miss /\ UNCHANGED held
           ELSE /\ RRsetRdFree(s, t)
                /\ IF rrset_cache[s].data.ttl > now
                   THEN /\ held' = [held EXCEPT ![t].r = @ \cup {s}]
                        /\ Goto(t, "fd_create", [l EXCEPT !.key = s,
                                                          !.name = s.dname,
                                                          !.walked = @ + 1])
                   ELSE miss /\ UNCHANGED held
    /\ UNCHANGED <<cachevars, lockerr>>

\* the allocations of delegpt_rrset_add_ns that may fail, counted from
\* the start of the function: none, or one of the two that the name of an
\* NS record takes
AddNsFails(ns) == {{}} \cup {{j} : j \in 1..(2 * ns.data.count)}

\* find_delegation_create keeping the NS entry locked for the lookups that
\* follow
find_delegation_create_keepns(t) ==
    /\ pc[t] = "fd_create"
    /\ LET l == loc[t]
           ns == Entry(rrset_cache, l.key)
           dp == [ok |-> TRUE, name |-> l.name, namelen |-> Len(l.name),
                  nslist |-> <<>>, target_list |-> <<>>]
       IN  /\ UNCHANGED lockerr
           /\ \E allocok \in BOOLEAN, oom \in AddNsFails(ns) :
                IF ~allocok
                THEN /\ Idle(t)
                     /\ held' = [held EXCEPT ![t].r = @ \ {l.key}]
                ELSE /\ UNCHANGED held
                     /\ Goto(t, IF l.hasmsg THEN "fd_ds" ELSE "fd_addr",
                          [l EXCEPT
                             !.key = NoKey, !.i = 1,
                             !.atype = LDNS_RR_TYPE_A,
                             !.nslist = delegpt_rrset_add_ns(dp, 0, oom, ns)
                                            .dp.nslist])
    /\ UNCHANGED cachevars

\* with the NS entry locked: the delegation point and the referral message
\* are made (allocok) and the names of the NS records are added, up to the
\* one the region has no memory for (oom), then the NS entry is unlocked;
\* without memory for the first two the call returns NULL, without memory
\* for a name it goes on with the names added before
find_delegation_create(t) ==
    /\ pc[t] = "fd_create"
    /\ LET l == loc[t]
           ns == Entry(rrset_cache, l.key)
           dp == [ok |-> TRUE, name |-> l.name, namelen |-> Len(l.name),
                  nslist |-> <<>>, target_list |-> <<>>]
       IN  /\ held' = [held EXCEPT ![t].r = @ \ {l.key}]
           /\ lockerr' = Unlocked("find_delegation", {l.key}, held[t].r)
           /\ \E allocok \in BOOLEAN, oom \in AddNsFails(ns) :
                IF ~allocok THEN Idle(t)
                ELSE Goto(t, IF l.hasmsg THEN "fd_ds" ELSE "fd_addr",
                          [l EXCEPT
                             !.key = NoKey, !.i = 1,
                             !.atype = LDNS_RR_TYPE_A,
                             !.nslist = delegpt_rrset_add_ns(dp, 0, oom, ns)
                                            .dp.nslist])
    /\ UNCHANGED cachevars

\* find_add_ds: rrset_cache_lookup of the DS, then of the NSEC, at the
\* delegation point
find_add_ds_lookup(t) ==
    /\ pc[t] \in {"fd_ds", "fd_nsec"}
    /\ LET l == loc[t]
           type == IF pc[t] = "fd_ds" THEN LDNS_RR_TYPE_DS
                   ELSE LDNS_RR_TYPE_NSEC
           s == StoredKey(rrset_cache,
                    LookupKey(l.name, Len(l.name), type, l.q.qclass, 0))
           miss == IF pc[t] = "fd_ds" THEN "fd_nsec" ELSE "fd_addr"
       IN  IF s = NoKey
           THEN Goto(t, miss, l) /\ UNCHANGED held
           ELSE /\ RRsetRdFree(s, t)
                /\ IF rrset_cache[s].data.ttl > now
                   THEN /\ held' = [held EXCEPT ![t].r = @ \cup {s}]
                        /\ Goto(t, "fd_ds_copy", [l EXCEPT !.key = s])
                   ELSE Goto(t, miss, l) /\ UNCHANGED held
    /\ UNCHANGED <<cachevars, lockerr>>

\* the DS or NSEC is copied to the authority section (or not, without
\* memory) and unlocked
find_add_ds_copy(t) ==
    /\ pc[t] = "fd_ds_copy"
    /\ held' = [held EXCEPT ![t].r = @ \ {loc[t].key}]
    /\ lockerr' = Unlocked("find_delegation", {loc[t].key}, held[t].r)
    /\ Goto(t, "fd_addr", [loc[t] EXCEPT !.key = NoKey])
    /\ UNCHANGED cachevars

\* the loop of find_add_addrs moves on: from A to AAAA, from AAAA to the A
\* of the next nameserver
NextAddr(l) ==
    IF l.atype = LDNS_RR_TYPE_A
    THEN [l EXCEPT !.atype = LDNS_RR_TYPE_AAAA, !.key = NoKey]
    ELSE [l EXCEPT !.atype = LDNS_RR_TYPE_A, !.i = l.i + 1, !.key = NoKey]

\* find_add_addrs: rrset_cache_lookup of the A or AAAA of nameserver i
find_add_addrs_lookup(t) ==
    /\ pc[t] = "fd_addr"
    /\ LET l == loc[t] IN
       IF l.i > Len(l.nslist)
       THEN Idle(t) /\ UNCHANGED held
       ELSE LET s == StoredKey(rrset_cache,
                         LookupKey(l.nslist[l.i].name, l.nslist[l.i].namelen,
                                   l.atype, l.q.qclass, 0))
            IN  IF s = NoKey
                THEN Goto(t, "fd_addr", NextAddr(l)) /\ UNCHANGED held
                ELSE /\ RRsetRdFree(s, t)
                     /\ IF rrset_cache[s].data.ttl > now
                        THEN /\ held' = [held EXCEPT ![t].r = @ \cup {s}]
                             /\ Goto(t, "fd_addr_add", [l EXCEPT !.key = s])
                        ELSE Goto(t, "fd_addr", NextAddr(l))
                             /\ UNCHANGED held
    /\ UNCHANGED <<cachevars, lockerr>>

\* the addresses are added to the delegation point (addok) and the RRset
\* to the additional section, the entry is unlocked; without memory for an
\* address find_add_addrs returns 0
find_add_addrs_add(t) ==
    /\ pc[t] = "fd_addr_add"
    /\ held' = [held EXCEPT ![t].r = @ \ {loc[t].key}]
    /\ lockerr' = Unlocked("find_delegation", {loc[t].key}, held[t].r)
    /\ \E addok \in BOOLEAN :
         IF addok THEN Goto(t, "fd_addr", NextAddr(loc[t])) ELSE Idle(t)
    /\ UNCHANGED cachevars

-----------------------------------------------------------------------------
(* The start of the worker threads: three messages and four RRsets were
   stored at time 0, two seconds ago *)

nC == <<1, 99, 0>>                   \* c.

lA == Parsed(nEC, LDNS_RR_TYPE_A, rrset_trust_ans_AA, <<3>>,
             <<RData(<<192, 0, 2, 1>>)>>)
lA2 == Parsed(nEC, LDNS_RR_TYPE_A, rrset_trust_ans_AA, <<3>>,
              <<RData(<<192, 0, 2, 2>>)>>)
lNS == Parsed(nEC, LDNS_RR_TYPE_NS, rrset_trust_ans_AA, <<3, 3>>,
              <<RData(nNEC), RData(nX)>>)
lCN == Parsed(nWEC, LDNS_RR_TYPE_CNAME, rrset_trust_ans_AA, <<3>>,
              <<RData(nX)>>)
lX == Parsed(nX, LDNS_RR_TYPE_A, rrset_trust_ans_AA, <<1>>,
             <<RData(<<192, 0, 2, 3>>)>>)
lDN == Parsed(nC, LDNS_RR_TYPE_DNAME, rrset_trust_ans_AA, <<3>>,
              <<RData(nX)>>)
lGlue == Parsed(nNEC, LDNS_RR_TYPE_A, rrset_trust_glue, <<3>>,
                <<RData(<<192, 0, 2, 4>>)>>)
lNSEC == Parsed(nEC, LDNS_RR_TYPE_NSEC, rrset_trust_ans_AA, <<3>>,
                <<RData(<<0, 0>>)>>)
\* RRsets at w.e.c. that another module inserts while the threads run
lDNw == Parsed(nWEC, LDNS_RR_TYPE_DNAME, rrset_trust_ans_AA, <<1>>,
               <<RData(nX)>>)
lNSw == Parsed(nWEC, LDNS_RR_TYPE_NS, rrset_trust_ans_AA, <<1>>,
               <<RData(nNEC)>>)

qNS == QInfo(nEC, LDNS_RR_TYPE_NS, LDNS_RR_CLASS_IN)

\* e.c. A: the address, the NS set as authority
La == ParsedReply(BIT_QR, 3, <<lA>>, <<lNS>>, <<>>)
\* e.c. NS: the NS set, the address of e.c. as additional
Lb == ParsedReply(BIT_QR, 3, <<lNS>>, <<>>, <<lA>>)
\* w.e.c. A: the CNAME and the address of its target, for 1 second
Lw == ParsedReply(BIT_QR, 1, <<lCN, lX>>, <<>>, <<>>)
\* e.c. NS: the NS set, another address of e.c. as additional
Lb2 == ParsedReply(BIT_QR, 3, <<lNS>>, <<>>, <<lA2>>)
\* a reply without RRsets
Le == ParsedReply(BIT_QR, 2, <<>>, <<>>, <<>>)

RECURSIVE StoreAll(_, _)
StoreAll(c, xs) ==
    IF xs = <<>> THEN c
    ELSE LET r == dns_cache_store_msg(c.rrset_cache, c.msg_cache, c.idctr,
                                      Head(xs)[1], Head(xs)[2], 0, TRUE)
         IN  StoreAll([rrset_cache |-> r.rrset_cache,
                       msg_cache |-> r.msg_cache, idctr |-> r.idctr],
                      Tail(xs))

RECURSIVE UpdateAll(_, _)
UpdateAll(c, ks) ==
    IF ks = <<>> THEN c
    ELSE LET u == rrset_cache_update(c.rrset_cache, c.idctr, Head(ks), 0)
         IN  UpdateAll([c EXCEPT !.rrset_cache = u.cache, !.idctr = u.ctr],
                       Tail(ks))

LockStart ==
    UpdateAll(StoreAll([rrset_cache |-> EmptyCache, msg_cache |-> EmptyCache,
                        idctr |-> 0],
                       <<<<qA, La>>, <<qNS, Lb>>, <<qWA, Lw>>>>),
              <<lDN, lGlue, lNSEC>>)

-----------------------------------------------------------------------------
(* Writers: ids handed out after the start are bounded by MaxId *)

\* rrset_cache_update by another module: without an entry for the key the
\* RRset is inserted, else the entry is write-locked
rrset_cache_update_lock(t, k) ==
    /\ pc[t] = "idle"
    /\ LET ka == [k EXCEPT !.data = packed_rrset_ttl_add(@, now)]
           s == StoredKey(rrset_cache, k.rk)
           u == rrset_cache_update(rrset_cache, idctr, ka, now)
       IN  /\ u.ctr <= LockStart.idctr + MaxId
           /\ IF s = NoKey
              THEN /\ rrset_cache' = u.cache
                   /\ idctr' = u.ctr
                   /\ UNCHANGED <<pc, loc, held>>
              ELSE /\ RRsetWrFree(s, t)
                   /\ held' = [held EXCEPT ![t].w = @ \cup {s}]
                   /\ Goto(t, "upd_wr", [NoLoc EXCEPT !.op = "update",
                                                      !.key = s, !.rep = ka])
                   /\ UNCHANGED <<rrset_cache, idctr>>
    /\ UNCHANGED <<msg_cache, now, last, lockerr>>

\* the write-locked entry is kept, refreshed or replaced, and unlocked
rrset_cache_update_write(t) ==
    /\ pc[t] = "upd_wr"
    /\ LET u == rrset_cache_update(rrset_cache, idctr, loc[t].rep, now)
       IN  /\ rrset_cache' = u.cache
           /\ idctr' = u.ctr
    /\ held' = [held EXCEPT ![t].w = @ \ {loc[t].key}]
    /\ Idle(t)
    /\ UNCHANGED <<msg_cache, now, last, lockerr>>

\* the cache write-locks the RRset entry it is going to delete
evict_lock(t, rk) ==
    /\ pc[t] = "idle"
    /\ rk \in DOMAIN rrset_cache
    /\ RRsetWrFree(rk, t)
    /\ held' = [held EXCEPT ![t].w = @ \cup {rk}]
    /\ Goto(t, "evict_wr", [NoLoc EXCEPT !.op = "evict", !.key = rk])
    /\ UNCHANGED <<cachevars, lockerr>>

\* the entry is deleted (ub_rrset_key_delete), its lock with it
evict_delete(t) ==
    /\ pc[t] = "evict_wr"
    /\ rrset_cache' = [x \in DOMAIN rrset_cache \ {loc[t].key} |->
                          rrset_cache[x]]
    /\ held' = [held EXCEPT ![t].w = @ \ {loc[t].key}]
    /\ Idle(t)
    /\ UNCHANGED <<msg_cache, idctr, now, last, lockerr>>

\* dns_cache_store_msg is called: the references are set and sorted, the
\* TTLs made absolute
store_msg_call(t, q, rep) ==
    /\ pc[t] = "idle"
    /\ idctr + rep.rrset_count <= LockStart.idctr + MaxId
    /\ Goto(t, IF rep.rrset_count = 0 THEN "st_msg" ELSE "st_rrset",
            [NoLoc EXCEPT !.op = "store", !.q = q, !.i = 1,
                               !.ttl = rep.ttl,
                               !.rep = store_msg_prepare(rep, now)])
    /\ UNCHANGED <<cachevars, held, lockerr>>

\* the RRset cache and the reply after the turn for RRset i of store_rrsets
StoreTurn(t) ==
    store_rrsets_at([cache |-> rrset_cache, ctr |-> idctr,
                     rep |-> loc[t].rep], now, loc[t].i)

StoreNext(t, st) ==
    Goto(t, IF loc[t].i = st.rep.rrset_count THEN "st_msg" ELSE "st_rrset",
         [loc[t] EXCEPT !.rep = st.rep, !.i = loc[t].i + 1, !.key = NoKey])

\* store_rrsets, RRset i: rrset_cache_update inserts the RRset or
\* write-locks the entry there is
store_rrsets_lock(t) ==
    /\ pc[t] = "st_rrset"
    /\ LET s == StoredKey(rrset_cache, loc[t].rep.rrsets[loc[t].i].rk)
           st == StoreTurn(t)
       IN  IF s = NoKey
           THEN /\ rrset_cache' = st.cache
                /\ idctr' = st.ctr
                /\ StoreNext(t, st)
                /\ UNCHANGED held
           ELSE /\ RRsetWrFree(s, t)
                /\ held' = [held EXCEPT ![t].w = @ \cup {s}]
                /\ Goto(t, "st_rrset_wr", [loc[t] EXCEPT !.key = s])
                /\ UNCHANGED <<rrset_cache, idctr>>
    /\ UNCHANGED <<msg_cache, now, last, lockerr>>

\* store_rrsets, RRset i: the entry is kept, refreshed or replaced and
\* unlocked, the reference is rewritten
store_rrsets_write(t) ==
    /\ pc[t] = "st_rrset_wr"
    /\ LET st == StoreTurn(t)
       IN  /\ rrset_cache' = st.cache
           /\ idctr' = st.ctr
           /\ StoreNext(t, st)
    /\ held' = [held EXCEPT ![t].w = @ \ {loc[t].key}]
    /\ UNCHANGED <<msg_cache, now, last, lockerr>>

\* the end of dns_cache_store_msg: nothing more for a TTL of 0, else the
\* entry is made and slabhash_insert puts it in the message cache, under
\* the write lock of the entry it replaces
store_msg_insert(t) ==
    /\ pc[t] = "st_msg"
    /\ IF loc[t].ttl = 0
       THEN UNCHANGED msg_cache
       ELSE \E mallocok \in BOOLEAN :
              LET e == slabhash_lookup(msg_cache, loc[t].q) IN
              /\ (mallocok /\ e # NoQuery) => MsgWrFree(e, t)
              /\ msg_cache' = store_msg_entry(msg_cache, loc[t].q,
                                              loc[t].rep, mallocok)
    /\ Idle(t)
    /\ UNCHANGED <<rrset_cache, idctr, now, last, held, lockerr>>

-----------------------------------------------------------------------------
(* The worker threads together *)

InitLocks ==
    /\ rrset_cache = LockStart.rrset_cache
    /\ msg_cache = LockStart.msg_cache
    /\ idctr = LockStart.idctr
    /\ now = 2
    /\ last = [op |-> "init"]
    /\ pc = [t \in Threads |-> "idle"]
    /\ loc = [t \in Threads |-> NoLoc]
    /\ held = [t \in Threads |-> NoLocks]
    /\ lockerr = {}

LockQueries == {qA, qNS, qWA}
\* the RRsets another module updates the cache with, the replies to the
\* query for e.c. NS that are stored
LockUpdates == {lDNw, lNSw}
LockReplies == {Lb2, Le}

NextLocks ==
    \E t \in Workers :
        \/ \E q \in LockQueries : dns_cache_lookup_msg(t, q)
        \/ tomsg_check(t)
        \/ tomsg_array_lock(t)
        \/ tomsg_copy_unlock(t)
        \/ dns_cache_lookup_dname(t)
        \/ dns_cache_lookup_synth(t)
        \/ dns_cache_lookup_cname(t)
        \/ dns_cache_lookup_cnamemsg(t)
        \/ \E hasmsg \in BOOLEAN : find_delegation_ns(t, qWA, hasmsg)
        \/ find_delegation_create(t)
        \/ find_add_ds_lookup(t)
        \/ find_add_ds_copy(t)
        \/ find_add_addrs_lookup(t)
        \/ find_add_addrs_add(t)
        \/ \E k \in LockUpdates : rrset_cache_update_lock(t, k)
        \/ rrset_cache_update_write(t)
        \/ \E rk \in {lDN.rk, lNS.rk} : evict_lock(t, rk)
        \/ evict_delete(t)
        \/ \E rep \in LockReplies : store_msg_call(t, qNS, rep)
        \/ store_rrsets_lock(t)
        \/ store_rrsets_write(t)
        \/ store_msg_insert(t)

SpecLocks == InitLocks /\ [][NextLocks]_vars

-----------------------------------------------------------------------------
(* The worker threads look up the two messages that share the RRsets of
   e.c. and search the delegation of e.c., while the other threads store the
   reply to (e.c., NS) anew and evict the NS set: lookups that hold one
   RRset lock and want a second, with writers that wait for either *)

OrderQueries == {qA, qNS}

NextOrder ==
    \/ \E t \in Workers :
          \/ \E q \in OrderQueries : dns_cache_lookup_msg(t, q)
          \/ tomsg_check(t)
          \/ tomsg_array_lock(t)
          \/ tomsg_copy_unlock(t)
          \/ dns_cache_lookup_dname(t)
          \/ dns_cache_lookup_synth(t)
          \/ dns_cache_lookup_cname(t)
          \/ find_delegation_ns(t, qA, FALSE)
          \/ find_delegation_create(t)
          \/ find_add_addrs_lookup(t)
          \/ find_add_addrs_add(t)
    \/ \E t \in Storers :
          \/ store_msg_call(t, qNS, Lb)
          \/ store_rrsets_lock(t)
          \/ store_rrsets_write(t)
          \/ store_msg_insert(t)
          \/ evict_lock(t, lNS.rk)
          \/ evict_delete(t)

SpecOrder == InitLocks /\ [][NextOrder]_vars

-----------------------------------------------------------------------------
(* The worker threads walk up w.e.c. for a DNAME (dns_cache_lookup) and for
   an NS set (dns_cache_find_delegation), while the DNAME at c. and the NS
   set at e.c. are evicted and another module inserts RRsets on the way of
   the walk, some of them expired when they come in *)

\* RRsets with TTL 0: expired from the start
lDNe0 == Parsed(nEC, LDNS_RR_TYPE_DNAME, rrset_trust_ans_AA, <<0>>,
                <<RData(nX)>>)
lNSc0 == Parsed(nC, LDNS_RR_TYPE_NS, rrset_trust_ans_AA, <<0>>,
                <<RData(nNEC)>>)

WalkUpdates == {lDNw, lNSw, lDNe0, lNSc0}

NextWalk ==
    \E t \in Workers :
        \/ dns_cache_lookup_msg(t, qWA)
        \/ tomsg_check(t)
        \/ dns_cache_lookup_dname(t)
        \/ dns_cache_lookup_synth(t)
        \/ dns_cache_lookup_cname(t)
        \/ dns_cache_lookup_cnamemsg(t)
        \/ \E hasmsg \in BOOLEAN : find_delegation_ns(t, qWA, hasmsg)
        \/ find_delegation_create(t)
        \/ find_add_ds_lookup(t)
        \/ find_add_ds_copy(t)
        \/ find_add_addrs_lookup(t)
        \/ find_add_addrs_add(t)
        \/ \E k \in WalkUpdates : rrset_cache_update_lock(t, k)
        \/ rrset_cache_update_write(t)
        \/ \E rk \in {lDN.rk, lNS.rk} : evict_lock(t, rk)
        \/ evict_delete(t)

SpecWalk == InitLocks /\ [][NextWalk]_vars

-----------------------------------------------------------------------------
(* The RRset cache with delegations, searched by one thread: NS sets at the
   root, at e.c. and at w.e.c., a DS and an NSEC at e.c., the addresses of
   the nameserver n.e.c.; the nameserver x. has no addresses *)

nRoot == <<0>>

dNSroot == Parsed(nRoot, LDNS_RR_TYPE_NS, rrset_trust_ans_AA, <<3>>,
                  <<RData(nX)>>)
dNSec == Parsed(nEC, LDNS_RR_TYPE_NS, rrset_trust_ans_AA, <<3, 3>>,
                <<RData(nNEC), RData(nX)>>)
\* expires after a second
dNSw == Parsed(nWEC, LDNS_RR_TYPE_NS, rrset_trust_ans_AA, <<1>>,
               <<RData(nNEC)>>)
\* expires after a second
dDS == Parsed(nEC, LDNS_RR_TYPE_DS, rrset_trust_ans_AA, <<1>>,
              <<RData(<<1, 2>>)>>)
dNSEC == Parsed(nEC, LDNS_RR_TYPE_NSEC, rrset_trust_ans_AA, <<3>>,
                <<RData(<<0, 0>>)>>)
dA == Parsed(nNEC, LDNS_RR_TYPE_A, rrset_trust_glue, <<3>>,
             <<RData(<<192, 0, 2, 4>>)>>)
\* expires after a second
dAAAA == Parsed(nNEC, LDNS_RR_TYPE_AAAA, rrset_trust_glue, <<1>>,
                <<RData(<<32, 1, 13, 184, 0, 0, 0, 0, 0, 0, 0, 0, 0, 0, 0, 4>>)>>)

qXA == QInfo(nX, LDNS_RR_TYPE_A, LDNS_RR_CLASS_IN)

DelegStart ==
    UpdateAll([rrset_cache |-> EmptyCache, msg_cache |-> EmptyCache,
               idctr |-> 0],
              <<dNSroot, dNSec, dNSw, dDS, dNSEC, dA, dAAAA>>)

\* no allocation fails, or exactly one of the first k does
OneFails(k) == {{}} \cup {{i} : i \in 1..k}

\* the calls: query, failing allocations, whether a referral message is
\* wanted. A call without message makes fewer allocations.
DelegCalls ==
    {<<qWA, oom, TRUE>> : oom \in OneFails(MaxAlloc)}
        \cup {<<qWA, oom, FALSE>> : oom \in OneFails(MaxAllocNoMsg)}
        \cup {<<qXA, {}, hasmsg>> : hasmsg \in BOOLEAN}

InitDeleg ==
    /\ rrset_cache = DelegStart.rrset_cache
    /\ msg_cache = EmptyCache
    /\ idctr = DelegStart.idctr
    /\ now = 0
    /\ last = [op |-> "init"]
    /\ pc = [c \in Callers |-> "idle"]
    /\ loc = [c \in Callers |-> NoCall]
    /\ held = EmptyCache
    /\ lockerr = {}

DoDelegation == \E c \in DelegCalls : DelegCall("reader", c[1], c[2], c[3])

NextDeleg ==
    \/ DoEvictRRset
    \/ Tick
    \/ DoDelegation
    \/ DelegSteps

SpecDeleg == InitDeleg /\ [][NextDeleg]_vars

-----------------------------------------------------------------------------
(* The caches with RRsets that are in the RRset cache before a reply with
   the same RRsets is stored: the reply to (e.c., NS) has the NS set as
   answer and the address of the nameserver as glue *)

tNS == Parsed(nEC, LDNS_RR_TYPE_NS, rrset_trust_ans_AA, <<2>>,
              <<RData(nNEC)>>)
\* two addresses with different TTLs
tA == Parsed(nNEC, LDNS_RR_TYPE_A, rrset_trust_glue, <<2, 3>>,
             <<RData(<<192, 0, 2, 4>>), RData(<<192, 0, 2, 5>>)>>)
Mt == ParsedReply(BIT_QR, 2, <<tNS>>, <<>>, <<tA>>)

\* the address from an authoritative answer: higher trust, shorter TTL
tAhi == Parsed(nNEC, LDNS_RR_TYPE_A, rrset_trust_ans_AA, <<1>>,
               <<RData(<<192, 0, 2, 4>>)>>)
\* the same RRsets as in the reply, with longer TTLs
tNSlong == Parsed(nEC, LDNS_RR_TYPE_NS, rrset_trust_ans_AA, <<3>>,
                  <<RData(nNEC)>>)
tAlong == Parsed(nNEC, LDNS_RR_TYPE_A, rrset_trust_glue, <<3, 3>>,
                 <<RData(<<192, 0, 2, 4>>), RData(<<192, 0, 2, 5>>)>>)

TtlUpdates == {tAhi, tNSlong, tAlong}

DoTtlUpdate == \E k \in TtlUpdates : RRsetUpdate(k)
DoTtlStore == \E mallocok \in BOOLEAN : StoreCall("writer", qNS, Mt, mallocok)
DoTtlLookup == \E oom \in OomInputs : LookupCall("reader", qNS, oom)

NextTtl ==
    \/ DoTtlUpdate
    \/ DoTtlStore
    \/ StoreSteps
    \/ DoEvictRRset
    \/ DoEvictMsg
    \/ Tick
    \/ DoTtlLookup
    \/ LookupSteps

SpecTtl == Init /\ [][NextTtl]_vars

-----------------------------------------------------------------------------
(* The caches with signed RRsets: every RRset carries an RRSIG record whose
   TTL differs from the TTL of the data.  A DNAME at e.c., the NS set of
   e.c. and the address of its nameserver come in by rrset_cache_update and
   in the reply to (e.c., NS); they are served from the message cache, as a
   DNAME with its synthesized CNAME, as a delegation, and copied with
   packed_rrset_copy_region. *)

sigRR == RData(<<0, 2, 8, 1>>)
sigRR2 == RData(<<0, 2, 8, 2>>)

\* the signature expires before the data
gNS == Signed(nEC, LDNS_RR_TYPE_NS, rrset_trust_ans_AA, <<3>>,
              <<RData(nNEC)>>, <<2>>, <<sigRR>>)
gA == Signed(nNEC, LDNS_RR_TYPE_A, rrset_trust_glue, <<3>>,
             <<RData(<<192, 0, 2, 4>>)>>, <<2>>, <<sigRR>>)
gDN == Signed(nEC, LDNS_RR_TYPE_DNAME, rrset_trust_ans_AA, <<3>>,
              <<RData(nX)>>, <<2>>, <<sigRR>>)
Mg == ParsedReply(BIT_QR, 2, <<gNS>>, <<>>, <<gA>>)

\* the same address signed anew; the signature is at the end of its life
gAresig == Signed(nNEC, LDNS_RR_TYPE_A, rrset_trust_glue, <<1>>,
                  <<RData(<<192, 0, 2, 4>>)>>, <<0>>, <<sigRR2>>)

SigUpdates == {gDN, gAresig}
SigQueries == {qNS, qWA}

\* packed_rrset_copy_region(key, region, now) on an entry of the RRset
\* cache by another module
CopyRegion(rk, oom) ==
    /\ rk \in DOMAIN rrset_cache
    /\ last' = [op |-> "copy_region", key |-> Entry(rrset_cache, rk),
                now |-> now, oom |-> oom,
                res |-> packed_rrset_copy_region(Entry(rrset_cache, rk), 0,
                                                 oom, now)]
    /\ UNCHANGED <<rrset_cache, msg_cache, idctr, now, threadvars>>

NextSig ==
    \/ \E k \in SigUpdates : RRsetUpdate(k)
    \/ \E mallocok \in BOOLEAN : StoreCall("writer", qNS, Mg, mallocok)
    \/ StoreSteps
    \/ DoEvictRRset
    \/ DoEvictMsg
    \/ Tick
    \/ \E q \in SigQueries, oom \in OomInputs : LookupCall("reader", q, oom)
    \/ LookupSteps
    \/ \E hasmsg \in BOOLEAN : DelegCall("reader", qWA, {}, hasmsg)
    \/ DelegSteps
    \/ \E rk \in DOMAIN rrset_cache, oom \in OomInputs : CopyRegion(rk, oom)

SpecSig == Init /\ [][NextSig]_vars

-----------------------------------------------------------------------------
(* The key objects of the RRset cache through their life: obtained from the
   allocator with a fresh id for a parsed RRset, handed to store_rrsets with
   a reply (which puts them in the cache or destroys them in favour of the
   key that is there), destroyed by the cache, obtained again.  The state is
   kept in the variable last: keys are the objects at their addresses,
   cached the addresses of the keys that are in the cache, refs the
   references that are held somewhere (each is the address of a key object
   and the id seen when the reference was made), old the references whose
   key object was destroyed after they were made, ref and rrset the
   reference and the pointer rep->rrsets[i] that the last turn of
   store_rrsets left *)

\* freed data, a freed name
NoData == [count |-> 0]
NoName == <<>>

\* number of ids the allocator hands out to the key objects
MaxKeyId == 4

\* ub_rrset_key_delete that leaves the id alone
ub_rrset_key_delete_keepid(k) ==
    [k EXCEPT !.rk.dname = NoName]

\* ub_rrset_key_delete(key, userdata): the callback of the cache for a key
\* that leaves it
ub_rrset_key_delete(k) ==
    [k EXCEPT !.id = 0, !.rk.dname = NoName]

\* rrset_data_delete(data, userdata), applied to the data of the key
rrset_data_delete(k) == [k EXCEPT !.data = NoData]

\* ub_packed_rrset_parsedelete(pkey, alloc) for a key that is not in the
\* cache
ub_packed_rrset_parsedelete(pkey) ==
    [pkey EXCEPT !.data = NoData, !.rk.dname = NoName, !.id = 0]

\* alloc_special_obtain: the key object is handed out again, for the RRset
\* k, with an id that was never used before
alloc_special_obtain(ctr, k) == [k EXCEPT !.id = ctr + 1]

KeyAddrs == {"key1", "key2"}
KeyInputs == {kA1, kA2, kNS, lNS}

NoRef == [key |-> "none", id |-> 0]

\* the RRset cache made of the key objects ks at the addresses as
KeyCache(ks, as) ==
    [rk \in {ks[b].rk : b \in as} |->
        LET b == CHOOSE c \in as : ks[c].rk = rk
        IN  [id |-> ks[b].id, data |-> ks[b].data]]

InitKeys ==
    /\ rrset_cache = EmptyCache
    /\ msg_cache = EmptyCache
    /\ idctr = 0
    /\ now = 0
    /\ last = [op |-> "release",
               keys |-> [a \in KeyAddrs |-> ub_packed_rrset_parsedelete(kA1)],
               cached |-> {}, refs |-> {}, old |-> {},
               ref |-> NoRef, rrset |-> "none"]
    /\ pc = EmptyCache
    /\ loc = EmptyCache
    /\ held = EmptyCache
    /\ lockerr = {}

\* the parser obtains the free key object at a for the RRset k
KeyObtain(a, k) ==
    /\ last.keys[a].id = 0
    /\ idctr < MaxKeyId
    /\ idctr' = idctr + 1
    /\ last' = [last EXCEPT !.op = "obtain",
                            !.keys[a] = alloc_special_obtain(idctr, k)]
    /\ UNCHANGED <<rrset_cache, msg_cache, now, threadvars>>

\* one turn of the loop of store_rrsets for a reply whose rrsets[i] is the
\* key object at a: the reference is set to the key and its id and
\* rrset_cache_update is called.  Without an entry for the RRset the key
\* goes into the cache; with one the entry is kept, refreshed or given the
\* new data and a new id, the reference is set to the key of the entry, the
\* key passed is destroyed and rep->rrsets[i] is set to the key of the
\* reference
KeyRef(a) ==
    /\ last.keys[a].id # 0
    /\ a \notin last.cached
    /\ LET k == last.keys[a]
           cache == KeyCache(last.keys, last.cached)
           turn(s, u) ==
               IF s = NoKey
               THEN /\ idctr' = idctr
                    /\ last' = [last EXCEPT
                          !.op = "ref",
                          !.cached = @ \cup {a},
                          !.refs = @ \cup {[key |-> a, id |-> k.id]},
                          !.ref = [key |-> a, id |-> k.id],
                          !.rrset = a]
               ELSE LET b == CHOOSE c \in last.cached : last.keys[c].rk = s
                    IN  /\ u.ctr <= MaxKeyId
                        /\ idctr' = u.ctr
                        /\ last' = [last EXCEPT
                              !.op = "ref",
                              !.keys[b] = [rk |-> s, id |-> u.cache[s].id,
                                           data |-> u.cache[s].data],
                              !.keys[a] = ub_packed_rrset_parsedelete(@),
                              !.old = @ \cup {r \in last.refs : r.key = a},
                              !.refs = @ \cup {[key |-> b, id |-> u.ref.id]},
                              !.ref = [key |-> b, id |-> u.ref.id],
                              !.rrset = b]
       IN  turn(StoredKey(cache, k.rk),
                rrset_cache_update(cache, idctr, k, now))
    /\ UNCHANGED <<rrset_cache, msg_cache, now, threadvars>>

\* a reply that holds the reference r is deleted
KeyUnref(r) ==
    /\ r \in last.refs
    /\ last' = [last EXCEPT !.op = "unref", !.refs = @ \ {r},
                            !.old = @ \ {r}]
    /\ UNCHANGED <<rrset_cache, msg_cache, idctr, now, threadvars>>

\* the cache deletes the entry of the key at a
KeyDelete(a) ==
    /\ a \in last.cached
    /\ last' = [last EXCEPT !.op = "delete",
                    !.keys[a] = rrset_data_delete(ub_rrset_key_delete(@)),
                    !.cached = @ \ {a},
                    !.old = @ \cup {r \in last.refs : r.key = a}]
    /\ UNCHANGED <<rrset_cache, msg_cache, idctr, now, threadvars>>

\* the key at a was not put in the cache: it is deleted by the caller of
\* the parser
KeyParseDelete(a) ==
    /\ last.keys[a].id # 0
    /\ a \notin last.cached
    /\ last' = [last EXCEPT !.op = "parsedelete",
                    !.keys[a] = ub_packed_rrset_parsedelete(@),
                    !.old = @ \cup {r \in last.refs : r.key = a}]
    /\ UNCHANGED <<rrset_cache, msg_cache, idctr, now, threadvars>>

NextKeys ==
    \/ \E a \in KeyAddrs, k \in KeyInputs : KeyObtain(a, k)
    \/ \E a \in KeyAddrs : KeyRef(a)
    \/ \E r \in last.refs : KeyUnref(r)
    \/ \E a \in KeyAddrs : KeyDelete(a)
    \/ \E a \in KeyAddrs : KeyParseDelete(a)

SpecKeys == InitKeys /\ [][NextKeys]_vars

-----------------------------------------------------------------------------
(* ub_rrset_compare on three keys: names of one, of three and of five bytes,
   two of them differing in the case of a letter only, two types, the
   classes IN and CH, two values of the flags *)

nEup == <<1, 69, 1, 99, 0>>          \* E.c.
PACKED_RRSET_NSEC_AT_APEX == 1

CompareNames == {nRoot, nC, nX, nEC, nEup}

CompareKeys ==
    {[RK(name, type, class) EXCEPT !.flags = flags] :
        name \in CompareNames, type \in {LDNS_RR_TYPE_A, LDNS_RR_TYPE_NS},
        class \in {LDNS_RR_CLASS_IN, 3},
        flags \in {0, PACKED_RRSET_NSEC_AT_APEX}}

InitCompare ==
    /\ rrset_cache = EmptyCache
    /\ msg_cache = EmptyCache
    /\ idctr = 0
    /\ now = 0
    /\ \E a, b, c \in CompareKeys :
          last = [op |-> "keys", a |-> a, b |-> b, c |-> c]
    /\ pc = EmptyCache
    /\ loc = EmptyCache
    /\ held = EmptyCache
    /\ lockerr = {}

\* the three keys are compared with each other
DoCompare ==
    /\ last.op = "keys"
    /\ last' = [op |-> "compare", a |-> last.a, b |-> last.b, c |-> last.c,
                ab |-> ub_rrset_compare(last.a, last.b),
                ba |-> ub_rrset_compare(last.b, last.a),
                bc |-> ub_rrset_compare(last.b, last.c),
                ac |-> ub_rrset_compare(last.a, last.c)]
    /\ UNCHANGED <<rrset_cache, msg_cache, idctr, now, threadvars>>

NextCompare == DoCompare

SpecCompare == InitCompare /\ [][NextCompare]_vars





-----------------------------------------------------------------------------
(* Properties of the caches used by the two callers (Spec) *)

\* the caller that looks up took a step of its call
Looked ==
    /\ pc["reader"] # "idle"
    /\ <<pc["reader"], loc["reader"]>> # <<pc'["reader"], loc'["reader"]>>

\* the caller that stores took a step of its call
Stored ==
    /\ pc["writer"] # "idle"
    /\ <<pc["writer"], loc["writer"]>> # <<pc'["writer"], loc'["writer"]>>

\* what the lookups of the call in progress, or of the call that has just
\* returned, found
SeenNow ==
    IF pc["reader"] # "idle" THEN loc["reader"].seen
    ELSE IF last.op \in {"lookup", "find_delegation"} THEN last.seen
    ELSE <<>>

\* what the lookup of the step just taken found
Found == SeenNow'[Len(SeenNow')]

\* the names obtained from name by stripping labels off the front, name
\* itself and the root included
RECURSIVE Suffixes(_)
Suffixes(name) ==
    IF Len(name) <= 1 THEN {name}
    ELSE {name} \cup Suffixes(SubSeq(name, name[1] + 2, Len(name)))

\* the cache holds an unexpired RRset of the type and class at the name
HasUnexpired(cache, name, type, class, timenow) ==
    \E rk \in DOMAIN cache :
        /\ ntohs(rk.type) = type
        /\ ntohs(rk.rrset_class) = class
        /\ query_dname_compare(rk.dname, name) = 0
        /\ cache[rk].data.ttl > timenow

\* the suffixes of name from name itself up to the root, the longest first
RECURSIVE Walk(_)
Walk(name) ==
    IF Len(name) <= 1 THEN <<name>>
    ELSE <<name>> \o Walk(SubSeq(name, name[1] + 2, Len(name)))

\* a lookup in the RRset cache finds what the cache holds when it is made:
\* the entry of the name, the type and the class of the query that has not
\* expired at the time the call read, nothing when there is none
RRsetStepSees ==
    LET l == loc["reader"] IN
    /\ Found.rrset # NoKey <=>
           HasUnexpired(rrset_cache, Found.name, Found.type, l.q.qclass, l.now)
    /\ Found.rrset # NoKey =>
           /\ Found.rrset \in DOMAIN rrset_cache
           /\ ntohs(Found.rrset.type) = Found.type
           /\ query_dname_compare(Found.rrset.dname, Found.name) = 0
           /\ Found.entry = Entry(rrset_cache, Found.rrset)

\* the lookups of kind step of the call that has returned
SeenOf(step) == SelectSeq(last.seen, LAMBDA e : e.step = step)

\* the walk from name upwards made by the lookups w: one lookup for each
\* suffix, the longest first, all of them misses but for the last, which is
\* a hit unless the walk has come to the root
WalkOk(w, name) ==
    /\ Len(w) >= 1
    /\ Len(w) <= Len(Walk(name))
    /\ \A i \in 1..Len(w) :
           /\ w[i].name = Walk(name)[i]
           /\ i < Len(w) => w[i].rrset = NoKey
    /\ w[Len(w)].rrset = NoKey => Len(w) = Len(Walk(name))

\* the entry of the message cache the last lookup was about
LastEntry == slabhash_lookup(msg_cache, last.q)

\* the references of r are live at the time the last call read
AllRefsLive(r) ==
    \A i \in 1..r.rrset_count : RefLive(rrset_cache, r.ref[i], last.now)

\* C1: dns_cache_lookup serves a cached message only when the message cache
\* has an entry for the query and every reference of that entry is live (the
\* id in the RRset cache is the id recorded in the reference) and its RRset
\* has not expired; with a stale or expired reference the message step
\* gives no message.  The message is served by the step that looks the
\* entry up, so the caches are those the call read.
C1_StaleNeverServed ==
    (last.op = "lookup" /\ last.res.path = "msg") =>
        /\ LastEntry # NoQuery
        /\ AllRefsLive(msg_cache[LastEntry])

\* a lookup found the message entry, not expired, with a reference that
\* could not be locked, and did not serve the message
C1_Witness ==
    /\ last.op = "lookup"
    /\ last.oom = {}
    /\ last.seen[1].entry # NoQuery
    /\ ~last.seen[1].expired
    /\ ~last.seen[1].live
    /\ last.res.path # "msg"

\* the NS set k of a reply (relative TTL above 0) is what a
\* dns_cache_find_delegation at its owner finds in cache at timenow
DelegationFinds(cache, k, timenow) ==
    (ntohs(k.rk.type) = LDNS_RR_TYPE_NS /\ k.data.ttl > 0) =>
        LET r == dns_cache_find_delegation(cache, k.rk.dname, k.rk.dname_len,
                     LDNS_RR_TYPE_A, ntohs(k.rk.rrset_class), {}, FALSE,
                     timenow)
        IN  r.dp.ok /\ r.dp.name = k.rk.dname /\ r.dp.nslist # <<>>

\* the RRset the turn of store_rrsets just taken was about, as given
StoredRRset == loc["writer"].given.rrsets[loc["writer"].i]

\* C2 (as amended): no step of a call of dns_cache_store_msg with reply TTL
\* 0 changes the message cache, and the call returns without an entry
\* stored (a lookup of the key misses on the message path unless an entry
\* stored earlier is still there); each turn of store_rrsets leaves its
\* RRset of the reply with an entry in the RRset cache, and there a
\* dns_cache_find_delegation at the owner of an NS set of the reply finds
\* that delegation.
C2_ZeroTtlStore ==
    [][(Stored /\ loc["writer"].ttl = 0) =>
          /\ msg_cache' = msg_cache
          /\ pc'["writer"] = "idle" =>
                (last'.op = "store" /\ last'.rep.ttl = 0 /\ ~last'.stored)
          /\ pc["writer"] = "store_rrsets" =>
                /\ StoredKey(rrset_cache', StoredRRset.rk) # NoKey
                /\ DelegationFinds(rrset_cache', StoredRRset,
                                   loc["writer"].now)]_vars

\* a reply of TTL 0 was handed in, its NS set is in the RRset cache and the
\* message cache holds the older message for the same query
C2_Witness ==
    /\ last.op = "store"
    /\ last.rep.ttl = 0
    /\ kNS.rk \in DOMAIN rrset_cache
    /\ slabhash_lookup(msg_cache, last.q) # NoQuery

\* C2 as stated: after a store with reply TTL 0 the message cache has no
\* entry for the query key.
C2_AsStated ==
    (last.op = "store" /\ last.rep.ttl = 0) =>
        slabhash_lookup(msg_cache, last.q) = NoQuery

\* the served copy ck of the entry e as read: same key and records, the
\* TTLs the seconds that remain at the time timenow the call read
RebasedOf(ck, e, timenow) ==
    /\ ck.rk = e.rk
    /\ ck.data.count = e.data.count
    /\ ck.data.rr_len = e.data.rr_len
    /\ ck.data.rr_data = e.data.rr_data
    /\ ck.data.ttl = e.data.ttl - timenow
    /\ \A j \in 1..e.data.count :
           ck.data.rr_ttl[j] = e.data.rr_ttl[j] - timenow

\* the served copy ck of the cache entry under rk
Rebased(ck, rk, timenow) == RebasedOf(ck, Entry(rrset_cache, rk), timenow)

\* the entry stored for the reply: flags, counts and RRsets in the order of
\* the reply
KeptAsGiven(r, rep) ==
    /\ r.flags = rep.flags
    /\ r.qdcount = rep.qdcount
    /\ r.an_numrrsets = rep.an_numrrsets
    /\ r.ns_numrrsets = rep.ns_numrrsets
    /\ r.ar_numrrsets = rep.ar_numrrsets
    /\ r.rrset_count = rep.rrset_count
    /\ \A i \in 1..rep.rrset_count : r.rrsets[i] = rep.rrsets[i].rk

\* the message served is the entry r of the message cache
ServedAsKept(m, r) ==
    /\ m.ok
    /\ m.rep.flags = r.flags
    /\ m.rep.qdcount = r.qdcount
    /\ m.rep.an_numrrsets = r.an_numrrsets
    /\ m.rep.ns_numrrsets = r.ns_numrrsets
    /\ m.rep.ar_numrrsets = r.ar_numrrsets
    /\ m.rep.rrset_count = r.rrset_count
    /\ Len(m.rep.rrsets) = r.rrset_count
    /\ \A i \in 1..r.rrset_count :
           Rebased(m.rep.rrsets[i], r.rrsets[i], last.now)

\* the message step of a lookup finds what the caches hold when it is
\* taken: the entry for the query, whether its reply has expired at the
\* time the call read, whether all its references are live
MsgStepSees ==
    (Looked /\ pc["reader"] = "lookup_msg") =>
        LET l == loc["reader"]
            e == slabhash_lookup(msg_cache, l.q)
        IN  /\ Found.entry = e
            /\ e # NoQuery =>
                  /\ Found.expired <=> msg_cache[e].ttl < l.now
                  /\ Found.live <=>
                        \A i \in 1..msg_cache[e].rrset_count :
                            RefLive(rrset_cache, msg_cache[e].ref[i], l.now)

\* C6: a reply stored with a TTL other than 0 is kept under its query with
\* its flags, qdcount, section counts and RRsets in the order given; and a
\* lookup that finds a kept message that has not expired, with all
\* references live and no allocation failing, returns it with those flags
\* and counts, the RRsets in that order, each with the records of the RRset
\* cache and with ttl and rr_ttl[i] the stored absolute value minus now.
C6_RoundTrip ==
    /\ [][(last'.op = "store" /\ last'.stored) =>
            /\ slabhash_lookup(msg_cache', last'.q) # NoQuery
            /\ KeptAsGiven(msg_cache'[slabhash_lookup(msg_cache', last'.q)],
                           last'.rep)]_vars
    /\ [][MsgStepSees]_vars
    /\ []((/\ last.op = "lookup"
           /\ last.oom = {}
           /\ last.seen[1].entry # NoQuery
           /\ ~last.seen[1].expired
           /\ last.seen[1].live)
          => /\ last.res.path = "msg"
             /\ LastEntry = last.seen[1].entry
             /\ ServedAsKept(last.res.msg, msg_cache[LastEntry]))

\* a message stored a second earlier was served by the message step with 1
\* second left of 2
C6_Witness ==
    /\ last.op = "lookup"
    /\ last.res.path = "msg"
    /\ last.now = 1
    /\ last.res.msg.rep.rrsets[1].data.rr_ttl = <<1>>
    /\ rrset_cache[last.res.msg.rep.rrsets[1].rk].data.rr_ttl = <<2>>

\* no RRset of the sequence copies carries a TTL above the one in the RRset
\* cache
TtlsBelowStored(copies) ==
    \A i \in 1..Len(copies) :
        LET ck == copies[i] IN
        ck.rk \in DOMAIN rrset_cache =>
            /\ ck.data.ttl <= rrset_cache[ck.rk].data.ttl
            /\ \A j \in 1..ck.data.count :
                   ck.data.rr_ttl[j] <= rrset_cache[ck.rk].data.rr_ttl[j]

\* the RRsets of the message a call is making or has returned
RRsetsOfMsg(m) == IF m.ok THEN m.rep.rrsets ELSE <<>>

MsgBefore ==
    IF pc["reader"] \in {"deleg_ds", "deleg_nsec", "deleg_addr"}
    THEN RRsetsOfMsg(loc["reader"].msg)
    ELSE <<>>

MsgAfter ==
    IF pc'["reader"] = "idle" THEN RRsetsOfMsg(last'.res.msg)
    ELSE IF pc'["reader"] \in {"deleg_ds", "deleg_nsec", "deleg_addr"}
    THEN RRsetsOfMsg(loc'["reader"].msg)
    ELSE <<>>

\* the copies the step just taken added to the message
Copied == SubSeq(MsgAfter, Len(MsgBefore) + 1, Len(MsgAfter))

\* C7: no RRset that a step of dns_cache_lookup or of
\* dns_cache_find_delegation copies into the message or referral it returns
\* has a ttl or rr_ttl[i] above the value in the RRset cache: the
\* subtraction of now does not wrap.
C7_NoTtlWrap == [][Looked => TtlsBelowStored(Copied)]_vars

\* a CNAME reply made a second after the RRset was stored
C7_Witness ==
    /\ last.op = "lookup"
    /\ last.res.path = "cname"
    /\ last.now = 1
    /\ last.res.msg.rep.rrsets[1].data.rr_ttl = <<1>>


-----------------------------------------------------------------------------
(* Properties of the DNAME and CNAME steps of dns_cache_lookup (SpecSynth) *)

\* the DNAME entry the last lookup found on its walk from qname upwards:
\* its key and the entry as read, NoKey when the walk found none
LastDname ==
    IF SeenOf("dname") = <<>> THEN NoKey
    ELSE SeenOf("dname")[Len(SeenOf("dname"))].rrset

LastDnameEntry ==
    IF SeenOf("dname") = <<>> THEN NoKey
    ELSE SeenOf("dname")[Len(SeenOf("dname"))].entry

\* size of the name rewritten with the DNAME entry dn
NewLen(dn) ==
    last.q.qname_len + ldns_read_uint16(rrset_cache[dn].data.rr_data[1])
        - dn.dname_len

\* C3: DNAME is strictly preferred over CNAME in dns_cache_lookup: when no
\* cached message is served and the walk from qname upwards finds an
\* unexpired DNAME, the reply returned is not the one made of the CNAME
\* cached at qname; the CNAME at qname is returned only when the walk finds
\* no DNAME. (A DNAME whose first record get_cname_target rejects is
\* malformed cached data, which counts as a miss.)
C3_DnamePreferred ==
    (last.op = "lookup" /\ last.res.path = "cname") =>
        \/ LastDname = NoKey
        \/ ~get_cname_target(LastDnameEntry).ok

\* the CNAME reply was returned although the walk found an unexpired DNAME
\* with a well-formed target: an allocation of synth_dname_msg failed
C3_CnameAfterOom ==
    /\ last.op = "lookup"
    /\ last.res.path = "cname"
    /\ last.res.msg.ok
    /\ LastDname # NoKey
    /\ get_cname_target(LastDnameEntry).ok
    /\ last.oom # {}

\* the DNAME reply was returned while an unexpired CNAME is cached at qname
C3_DnameServed ==
    /\ last.op = "lookup"
    /\ last.res.path = "dname"
    /\ rrset_cache_lookup(rrset_cache, last.q.qname, last.q.qname_len,
                          LDNS_RR_TYPE_CNAME, last.q.qclass, 0, last.now)
           # NoKey

\* C4: a reply synthesized from a DNAME found at an ancestor of qname, the
\* rewritten name being at most 255 bytes, has 2 answer RRsets and no
\* others: the copy of the DNAME, then a CNAME owned by qname whose target
\* is the part of qname in front of the DNAME owner followed by the DNAME
\* target, with ttl 0, one record of TTL 0 and trust ans_noAA; the TTL of
\* the reply is 0.
C4_SynthShape ==
    (/\ last.op = "lookup"
     /\ last.res.path = "dname"
     /\ LastDname.dname_len < last.q.qname_len
     /\ NewLen(LastDname) <= 255)
    => LET rep == last.res.msg.rep
           dn == LastDname
           d == rrset_cache[dn].data
           target == SubSeq(d.rr_data[1], 3, Len(d.rr_data[1]))
           prefix == SubSeq(last.q.qname, 1, last.q.qname_len - dn.dname_len)
       IN  /\ rep.an_numrrsets = 2
           /\ rep.ns_numrrsets = 0
           /\ rep.ar_numrrsets = 0
           /\ rep.rrset_count = 2
           /\ Len(rep.rrsets) = 2
           /\ rep.ttl = 0
           /\ rep.rrsets[1].rk = dn
           /\ rep.rrsets[1].data.rr_data = d.rr_data
           /\ rep.rrsets[2].rk.dname = last.q.qname
           /\ ntohs(rep.rrsets[2].rk.type) = LDNS_RR_TYPE_CNAME
           /\ rep.rrsets[2].rk.rrset_class = dn.rrset_class
           /\ rep.rrsets[2].data.count = 1
           /\ rep.rrsets[2].data.ttl = 0
           /\ rep.rrsets[2].data.rr_ttl = <<0>>
           /\ rep.rrsets[2].data.trust = rrset_trust_ans_noAA
           /\ rep.rrsets[2].data.rr_data[1]
                  = ldns_write_uint16(Len(prefix) + Len(target))
                        \o prefix \o target
           /\ rep.rrsets[2].data.rr_len[1] = 2 + Len(prefix) + Len(target)

\* w.e.c. was rewritten with the DNAME at e.c. a second after it was stored
C4_Witness ==
    /\ last.op = "lookup"
    /\ last.res.path = "dname"
    /\ last.now = 1
    /\ last.q = qWA
    /\ LastDname = kDN.rk
    /\ last.res.msg.rep.rrsets[2].data.rr_data[1] = RData(<<1, 119>> \o nX)

\* C5: when the rewritten name has more than 255 bytes the reply of the
\* DNAME step carries rcode YXDOMAIN and only the DNAME RRset; a rewritten
\* name of 255 bytes or less gives no YXDOMAIN and the CNAME is added.
C5_Yxdomain ==
    (last.op = "lookup" /\ last.res.path = "dname")
    => LET rep == last.res.msg.rep IN
       IF NewLen(LastDname) > 255
       THEN /\ rep.flags = BitOr(BIT_QR, LDNS_RCODE_YXDOMAIN)
            /\ rep.flags % 16 = LDNS_RCODE_YXDOMAIN
            /\ rep.an_numrrsets = 1
            /\ rep.rrset_count = 1
            /\ Len(rep.rrsets) = 1
            /\ rep.rrsets[1].rk = LastDname
       ELSE /\ rep.flags = BIT_QR
            /\ rep.an_numrrsets = 2
            /\ ntohs(rep.rrsets[2].rk.type) = LDNS_RR_TYPE_CNAME

\* the name of 197 bytes rewritten to 256 bytes got YXDOMAIN
C5_Witness ==
    /\ last.op = "lookup"
    /\ last.res.path = "dname"
    /\ NewLen(LastDname) = 256
    /\ last.res.msg.rep.rrset_count = 1

\* the name of 197 bytes rewritten to 255 bytes got its CNAME
C5_Boundary ==
    /\ last.op = "lookup"
    /\ last.res.path = "dname"
    /\ NewLen(LastDname) = 255
    /\ last.res.msg.rep.rrset_count = 2


-----------------------------------------------------------------------------
(* Properties of the entry locks (SpecLocks) *)

\* the RRset entry the next step of thread t read-locks, NoKey if none
WantsRead(t) ==
    LET l == loc[t] IN
    IF pc[t] = "array_lock"
    THEN (IF msg_cache[l.e].ref[l.i].key \in DOMAIN rrset_cache
          THEN msg_cache[l.e].ref[l.i].key ELSE NoKey)
    ELSE IF pc[t] = "lk_dname"
    THEN StoredKey(rrset_cache,
             LookupKey(l.name, Len(l.name), LDNS_RR_TYPE_DNAME, l.q.qclass,
                       0))
    ELSE IF pc[t] = "fd_ns"
    THEN StoredKey(rrset_cache,
             LookupKey(l.name, Len(l.name), LDNS_RR_TYPE_NS, l.q.qclass, 0))
    ELSE IF pc[t] \in {"lk_cname", "fd_ds", "fd_nsec"}
    THEN StoredKey(rrset_cache,
             LookupKey(IF pc[t] = "lk_cname" THEN l.q.qname ELSE l.name,
                       IF pc[t] = "lk_cname" THEN l.q.qname_len
                       ELSE Len(l.name),
                       IF pc[t] = "lk_cname" THEN LDNS_RR_TYPE_CNAME
                       ELSE IF pc[t] = "fd_ds" THEN LDNS_RR_TYPE_DS
                       ELSE LDNS_RR_TYPE_NSEC, l.q.qclass, 0))
    ELSE IF pc[t] = "fd_addr" /\ l.i <= Len(l.nslist)
    THEN StoredKey(rrset_cache,
             LookupKey(l.nslist[l.i].name, l.nslist[l.i].namelen, l.atype,
                       l.q.qclass, 0))
    ELSE NoKey

\* the RRset entry the next step of thread t write-locks, NoKey if none
WantsWrite(t) ==
    IF pc[t] = "st_rrset"
    THEN StoredKey(rrset_cache, loc[t].rep.rrsets[loc[t].i].rk)
    ELSE NoKey

\* the message entry the next step of thread t write-locks
WantsMsgWrite(t) ==
    IF pc[t] = "st_msg" /\ loc[t].ttl # 0
    THEN slabhash_lookup(msg_cache, loc[t].q)
    ELSE NoQuery

\* thread u waits in lock_rw_wrlock for the RRset entry k, which another
\* thread has locked
WriterWaits(u, k) ==
    /\ WantsWrite(u) = k
    /\ \E v \in Threads \ {u} : k \in held[v].w \cup held[v].r

\* thread t waits for thread u: for a lock that u holds, or, as a reader,
\* for a writer that waits for the lock (a read-write lock may keep new
\* readers out while a writer waits)
WaitsFor(t, u) ==
    /\ t # u
    /\ \/ WantsRead(t) # NoKey
          /\ \/ WantsRead(t) \in held[u].w
             \/ WriterWaits(u, WantsRead(t))
       \/ WantsWrite(t) # NoKey /\ WantsWrite(t) \in held[u].w \cup held[u].r
       \/ WantsMsgWrite(t) # NoQuery
          /\ WantsMsgWrite(t) \in held[u].mw \cup held[u].m

RECURSIVE WaitClosure(_, _)
WaitClosure(S, n) ==
    IF n = 0 THEN S
    ELSE WaitClosure(S \cup {v \in Threads : \E u \in S : WaitsFor(u, v)},
                     n - 1)

WaitCycle ==
    \E t \in Threads :
        t \in WaitClosure({u \in Threads : WaitsFor(t, u)},
                          Cardinality(Threads))

\* a reference of the message entry r is stale
SomeRefStale(r) ==
    \E i \in 1..r.rrset_count :
        \/ r.ref[i].key \notin DOMAIN rrset_cache
        \/ rrset_cache[r.ref[i].key].id # r.ref[i].id

\* C8: a thread in dns_cache_lookup holds the message entry only while
\* tomsg works on it and one DNAME or CNAME entry only while the reply is
\* made from it; when the call has returned, however it went, the thread
\* holds no message entry lock and no RRset entry lock, and no step of the
\* call unlocks a lock the thread does not hold.
C8_LookupUnlocks ==
    /\ "lookup" \notin lockerr
    /\ \A t \in Threads :
        /\ pc[t] = "idle" => (held[t].m = {} /\ held[t].r = {})
        /\ pc[t] \in {"lk_dname", "lk_cname"} => held[t] = NoLocks
        /\ pc[t] \in {"lk_synth", "lk_cnamemsg"} =>
               held[t] = [NoLocks EXCEPT !.r = {loc[t].key}]
        /\ pc[t] \in {"tomsg", "array_lock", "tomsg_copy"} =>
               /\ held[t].m = {loc[t].e}
               /\ held[t].r \subseteq
                      RefKeys(msg_cache[loc[t].e].ref,
                              msg_cache[loc[t].e].rrset_count)

\* a message was rejected for a stale reference, its locks are released and
\* the call has come to the CNAME step
C8_Witness ==
    \E t \in Threads :
        /\ pc[t] = "lk_cname"
        /\ slabhash_lookup(msg_cache, loc[t].q) # NoQuery
        /\ SomeRefStale(msg_cache[slabhash_lookup(msg_cache, loc[t].q)])
        /\ held[t] = NoLocks

\* C9: a thread in dns_cache_find_delegation holds at most one RRset entry
\* lock and nothing else: none while it looks up the DS, NSEC, A or AAAA
\* entry, none when the call has returned, and it unlocks no lock it does
\* not hold.
C9_OneLockAtATime ==
    /\ "find_delegation" \notin lockerr
    /\ \A t \in Threads :
        loc[t].op = "find_delegation" =>
            /\ held[t].m = {} /\ held[t].mw = {} /\ held[t].w = {}
            /\ Cardinality(held[t].r) <= 1
            /\ pc[t] \in {"fd_ns", "fd_ds", "fd_nsec", "fd_addr"} =>
                   held[t].r = {}
            /\ pc[t] \in {"fd_create", "fd_ds_copy", "fd_addr_add"} =>
                   held[t].r = {loc[t].key}
    /\ \A t \in Threads : pc[t] = "idle" => held[t].r = {}

\* the address of the nameserver is locked, after the NS and the NSEC were
\* locked and unlocked
C9_Witness ==
    \E t \in Threads :
        /\ pc[t] = "fd_addr_add"
        /\ loc[t].hasmsg
        /\ held[t].r = {lGlue.rk}

\* no thread waits in a cycle of threads that each wait for the next
NoWaitCycle == ~WaitCycle

\* C10: with worker threads in dns_cache_lookup and
\* dns_cache_find_delegation, threads in dns_cache_store_msg and evictions,
\* no thread waits for an entry lock in a cycle of threads that each wait
\* for the next, also when a waiting writer keeps new readers out; a thread
\* in tomsg takes the RRset locks of a message in ascending order of
\* ub_rrset_compare, so that two lookups of messages that share RRsets lock
\* them in the same order.
C10_NoDeadlock ==
    /\ NoWaitCycle
    /\ \A t \in Threads :
        pc[t] = "array_lock" =>
            \A k \in held[t].r :
                ub_rrset_compare(k, msg_cache[loc[t].e].ref[loc[t].i].key) < 0

\* two lookups of different messages that share two RRsets and two stores:
\* one lookup holds both locks, the other holds the first and waits for the
\* second behind a store that waits for the first lookup, and the other
\* store waits for the lock both lookups hold
C10_Witness ==
    \E t \in Workers, u \in Workers, v \in Storers, w \in Storers :
        /\ t # u /\ v # w
        /\ pc[t] = "tomsg_copy" /\ loc[t].e = qA
        /\ pc[u] = "array_lock" /\ loc[u].e = qNS /\ loc[u].i = 2
        /\ Cardinality(held[t].r) = 2
        /\ Cardinality(held[u].r) = 1
        /\ held[u].r \subseteq held[t].r
        /\ WaitsFor(u, v) /\ WaitsFor(v, t)
        /\ WaitsFor(w, u) /\ WaitsFor(w, t)

\* a thread that holds an RRset lock waits for one that is write-locked
C10_HoldAndWait ==
    \E t \in Threads, u \in Threads : WaitsFor(t, u) /\ held[t].r # {}


-----------------------------------------------------------------------------
(* Properties of dns_cache_find_delegation (SpecDeleg) *)

\* the NS set the walk of the last call found, NoKey when it found none (the
\* last lookup of the walk is then the miss at the root)
NsFound == SeenOf("ns")[Len(SeenOf("ns"))]

\* C11: dns_cache_find_delegation returns the closest enclosing delegation.
\* The NS sets are looked up from the query name upwards (the name itself
\* and the root included), each lookup finding what the RRset cache holds:
\* an unexpired NS set of the query class. A delegation point that is
\* returned is owned by the first, so the longest, suffix where one is
\* found; when none is found down to the root the result is none, and when
\* one is found and no allocation fails a delegation point is returned.
C11_ClosestDelegation ==
    /\ [][(Looked /\ pc["reader"] = "deleg_ns") =>
            /\ Found.type = LDNS_RR_TYPE_NS
            /\ Found.name = loc["reader"].qname
            /\ RRsetStepSees]_vars
    /\ [](last.op = "find_delegation" =>
            /\ WalkOk(SeenOf("ns"), last.q.qname)
            /\ last.res.dp.ok =>
                  /\ NsFound.rrset # NoKey
                  /\ last.res.dp.name = NsFound.name
            /\ NsFound.rrset = NoKey => ~last.res.dp.ok
            /\ (NsFound.rrset # NoKey /\ last.oom = {}) => last.res.dp.ok)

\* the nearer name w.e.c. has an NS set that expired: the delegation point
\* returned for w.e.c. is e.c.
C11_Witness ==
    /\ last.op = "find_delegation"
    /\ last.oom = {}
    /\ last.q = qWA
    /\ dNSw.rk \in DOMAIN rrset_cache
    /\ rrset_cache[dNSw.rk].data.ttl <= last.now
    /\ SeenOf("ns")[1].name = nWEC
    /\ SeenOf("ns")[1].rrset = NoKey
    /\ last.res.dp.ok
    /\ last.res.dp.name = nEC

\* the referral message of the last call and its delegation point
Referral == last.res.msg.rep
ReferralDp == last.res.dp

\* the lookups of find_add_ds of the last call and the entry they found,
\* NoKey when both the DS and the NSEC missed
DsSeen == SeenOf("ds")
DsFound == DsSeen[Len(DsSeen)].rrset

\* C12: a referral message has at most one security RRset in its authority
\* section. The section starts with the NS set of the delegation point.
\* The DS at the delegation point is looked up first, and the NSEC at the
\* delegation point only if the DS lookup missed, each lookup finding what
\* the RRset cache holds: an unexpired RRset. A second RRset of the section
\* is the one found; when both miss the section holds only the NS set.
\* (The copy of the RRset into the message needs allocations: the RRset is
\* left out when one fails.)
C12_OneSecurityRRset ==
    /\ [][(Looked /\ pc["reader"] \in {"deleg_ds", "deleg_nsec"}) =>
            /\ Found.type = IF pc["reader"] = "deleg_ds"
                            THEN LDNS_RR_TYPE_DS ELSE LDNS_RR_TYPE_NSEC
            /\ Found.name = loc["reader"].dp.name
            /\ RRsetStepSees]_vars
    /\ []((last.op = "find_delegation" /\ last.hasmsg /\ last.res.msg.ok) =>
            /\ Referral.an_numrrsets = 0
            /\ Referral.ns_numrrsets \in {1, 2}
            /\ ntohs(Referral.rrsets[1].rk.type) = LDNS_RR_TYPE_NS
            /\ Referral.rrsets[1].rk.dname = ReferralDp.name
            /\ Len(DsSeen) \in {1, 2}
            /\ DsSeen[1].type = LDNS_RR_TYPE_DS
            /\ Len(DsSeen) = 2 <=> DsSeen[1].rrset = NoKey
            /\ Len(DsSeen) = 2 => DsSeen[2].type = LDNS_RR_TYPE_NSEC
            /\ Referral.ns_numrrsets = 2 =>
                  /\ DsFound # NoKey
                  /\ Referral.rrsets[2].rk = DsFound
                  /\ Referral.rrsets[2].rk.dname = ReferralDp.name
            /\ last.oom = {} =>
                  (Referral.ns_numrrsets = 2 <=> DsFound # NoKey))

\* the DS at e.c. is in the cache but expired, the NSEC is not: the
\* authority section of the referral holds the NS set and the NSEC
C12_Witness ==
    /\ last.op = "find_delegation"
    /\ last.hasmsg
    /\ last.oom = {}
    /\ last.res.msg.ok
    /\ dDS.rk \in DOMAIN rrset_cache
    /\ rrset_cache[dDS.rk].data.ttl <= last.now
    /\ DsSeen[1].rrset = NoKey
    /\ Referral.ns_numrrsets = 2
    /\ Referral.rrsets[2].rk = dNSEC.rk

\* the address lookups of the last call, as pairs of owner and type: those
\* made, and those that found an unexpired RRset
AskedAddrs ==
    {<<SeenOf("addr")[i].name, SeenOf("addr")[i].type>> :
        i \in 1..Len(SeenOf("addr"))}

CachedAddrs ==
    {<<SeenOf("addr")[i].name, SeenOf("addr")[i].type>> :
        i \in {j \in 1..Len(SeenOf("addr")) :
                  SeenOf("addr")[j].rrset # NoKey}}

\* the A and the AAAA of every nameserver name of the delegation point
NameserverAddrs ==
    {<<ReferralDp.nslist[i].name, t>> :
        i \in 1..Len(ReferralDp.nslist),
        t \in {LDNS_RR_TYPE_A, LDNS_RR_TYPE_AAAA}}

\* owner and type of the entries of the address table
TargetAddrs ==
    {<<ReferralDp.target_list[i].name, ntohs(ReferralDp.target_list[i].type)>> :
        i \in 1..Len(ReferralDp.target_list)}

\* owner and type of the RRsets after the authority section
AdditionalAddrs ==
    {<<Referral.rrsets[i].rk.dname, ntohs(Referral.rrsets[i].rk.type)>> :
        i \in (Referral.ns_numrrsets + 1)..Len(Referral.rrsets)}

\* C13: for every nameserver name of the delegation point the A and the
\* AAAA are looked up, each lookup finding what the RRset cache holds: an
\* unexpired RRset. Each RRset found is attached to the address table and,
\* with a message, appended to the additional section, and nothing else is:
\* ar_numrrsets counts exactly those RRsets. A nameserver without cached
\* addresses contributes nothing. (Attaching needs allocations: in a call
\* where one fails the table and the section hold a part of those RRsets.)
C13_Addresses ==
    /\ [][(Looked /\ pc["reader"] = "deleg_addr") =>
            /\ Found.type = loc["reader"].atype
            /\ Found.name = loc["reader"].dp.nslist[loc["reader"].i].name
            /\ RRsetStepSees]_vars
    /\ []((last.op = "find_delegation" /\ ReferralDp.ok) =>
            /\ AskedAddrs \subseteq NameserverAddrs
            /\ TargetAddrs \subseteq CachedAddrs
            /\ last.oom = {} =>
                  /\ AskedAddrs = NameserverAddrs
                  /\ TargetAddrs = CachedAddrs
            /\ last.hasmsg =>
                  /\ AdditionalAddrs \subseteq CachedAddrs
                  /\ Referral.ar_numrrsets = Cardinality(AdditionalAddrs)
                  /\ Referral.rrset_count
                         = Referral.ns_numrrsets + Referral.ar_numrrsets
                  /\ Referral.rrset_count = Len(Referral.rrsets)
                  /\ last.oom = {} => AdditionalAddrs = CachedAddrs)

\* e.c. has the nameservers n.e.c. and x.: the A and the AAAA of n.e.c. are
\* in the table and in the additional section, x. has none
C13_Witness ==
    /\ last.op = "find_delegation"
    /\ last.hasmsg
    /\ last.oom = {}
    /\ ReferralDp.ok
    /\ Len(ReferralDp.nslist) = 2
    /\ Referral.ar_numrrsets = 2
    /\ TargetAddrs = {<<nNEC, LDNS_RR_TYPE_A>>, <<nNEC, LDNS_RR_TYPE_AAAA>>}

\* the allocations of the first steps of dns_cache_find_delegation: the
\* delegation point, its name and, with a message, the four parts of the
\* referral message and the three of the copy of the NS set
FirstAllocs(hasmsg) == IF hasmsg THEN 1..9 ELSE 1..2

\* C14 (as amended): once an NS set has been found, an allocation failure
\* while adding the NS names, the DS or NSEC, or the addresses does not make
\* the call return none: the partially populated delegation point of the
\* delegation found is returned. An allocation failure while creating the
\* delegation point, setting its name or creating the referral message
\* makes the call return none.
C14_PartialDelegation ==
    (last.op = "find_delegation" /\ NsFound.rrset # NoKey) =>
        /\ ReferralDp.ok <=> last.oom \cap FirstAllocs(last.hasmsg) = {}
        /\ ReferralDp.ok => ReferralDp.name = NsFound.name
        /\ (ReferralDp.ok /\ last.hasmsg) => last.res.msg.ok

\* the allocation for the second nameserver name of e.c. failed: the
\* delegation point e.c. is returned with one nameserver name
C14_Witness ==
    /\ last.op = "find_delegation"
    /\ last.oom # {}
    /\ last.oom \cap FirstAllocs(last.hasmsg) = {}
    /\ ReferralDp.ok
    /\ ReferralDp.name = nEC
    /\ NsFound.entry.data.count = 2
    /\ Len(ReferralDp.nslist) = 1

\* C14 as stated: once an NS set has been found, no allocation failure makes
\* the call return none.
C14_AsStated ==
    (last.op = "find_delegation" /\ NsFound.rrset # NoKey) => ReferralDp.ok

-----------------------------------------------------------------------------
(* Properties of dns_cache_lookup under allocation failure and at the
   expiry instant (Spec, SpecSynth) *)

\* an allocation of the last lookup failed: a failing allocation is among
\* those the call made
LookupAllocFailed ==
    /\ last.op = "lookup"
    /\ \E i \in last.oom : i <= last.res.n

\* C15: if an allocation in the caller's region fails during
\* dns_cache_lookup (while copying a cached message, while synthesizing the
\* DNAME/CNAME reply, or while copying the CNAME), the lookup returns none
\* and no message built by a later step.
C15_OomReturnsNone ==
    LookupAllocFailed => ~last.res.msg.ok

\* the RRset cache entry the first RRset of the served message was copied
\* from
ServedFrom == StoredKey(rrset_cache, last.res.msg.rep.rrsets[1].rk)

\* C16: expiry is exclusive of the expiry instant. A cached message is
\* served from the message cache only if reply.ttl > now, and a CNAME or
\* DNAME RRset is used only if its ttl > now; with ttl = now the entry is a
\* miss.
C16_ExclusiveExpiry ==
    (last.op = "lookup" /\ last.res.msg.ok) =>
        IF last.res.path = "msg"
        THEN msg_cache[LastEntry].ttl > last.now
        ELSE rrset_cache[ServedFrom].data.ttl > last.now

\* C17: when a DNAME RRset is cached at qname itself (no label stripped), in
\* particular for a query of type DNAME not answered from the message
\* cache, dns_cache_lookup returns a reply with just the DNAME RRset and no
\* synthesized CNAME (an_numrrsets = 1).
C17_DnameAtQname ==
    (/\ last.op = "lookup"
     /\ last.res.path = "dname"
     /\ LastDname # NoKey
     /\ LastDname.dname_len = last.q.qname_len) =>
        /\ last.res.msg.rep.an_numrrsets = 1
        /\ last.res.msg.rep.rrset_count = 1

\* the CNAME lookup of the last call found an unexpired CNAME at the query
\* name
CnameAtQname ==
    /\ SeenOf("cname") # <<>>
    /\ SeenOf("cname")[1].rrset # NoKey

\* C18: when no cached message is served and no DNAME is found on the walk
\* up the name, the CNAME at exactly (qname, qclass) is looked up, the lookup
\* finding what the RRset cache holds: an unexpired CNAME gives a reply
\* with only that CNAME: an_numrrsets = 1, ns_numrrsets = 0,
\* ar_numrrsets = 0, rrset_count = 1, flags QR without error, for every
\* query type, CNAME included (the reply is built when no allocation of the
\* call fails). Without such a CNAME the result is none.
C18_CnameOnly ==
    /\ [][(Looked /\ pc["reader"] = "lookup_cname") =>
            /\ Found.type = LDNS_RR_TYPE_CNAME
            /\ Found.name = loc["reader"].q.qname
            /\ RRsetStepSees]_vars
    /\ []((last.op = "lookup" /\ last.res.path # "msg" /\ LastDname = NoKey)
          =>
            /\ Len(SeenOf("cname")) = 1
            /\ (CnameAtQname /\ ~LookupAllocFailed) => last.res.path = "cname"
            /\ ~CnameAtQname => ~last.res.msg.ok
            /\ last.res.msg.ok =>
                  /\ CnameAtQname
                  /\ last.res.path = "cname"
                  /\ last.res.msg.rep.flags = BIT_QR
                  /\ last.res.msg.rep.an_numrrsets = 1
                  /\ last.res.msg.rep.ns_numrrsets = 0
                  /\ last.res.msg.rep.ar_numrrsets = 0
                  /\ last.res.msg.rep.rrset_count = 1
                  /\ Len(last.res.msg.rep.rrsets) = 1
                  /\ last.res.msg.rep.rrsets[1].rk = SeenOf("cname")[1].rrset
                  /\ ntohs(last.res.msg.rep.rrsets[1].rk.type)
                         = LDNS_RR_TYPE_CNAME
                  /\ query_dname_compare(last.res.msg.rep.rrsets[1].rk.dname,
                                         last.q.qname) = 0
                  /\ last.res.msg.qinfo = last.q)

\* a query of type CNAME for w.e.c., where a CNAME and no DNAME is cached,
\* was answered with the CNAME
C18_Witness ==
    /\ last.op = "lookup"
    /\ last.q = qWC
    /\ LastDname = NoKey
    /\ CnameAtQname
    /\ last.res.path = "cname"
    /\ last.res.msg.rep.rrsets[1].rk = kCNn.rk

-----------------------------------------------------------------------------
(* Properties of the stored messages (Spec, SpecTtl) *)

\* the references of a reply are in the order of ub_rrset_compare
RefsSorted(r) ==
    \A i, j \in 1..Len(r.ref) :
        i < j => ub_rrset_compare(r.ref[i].key, r.ref[j].key) <= 0

\* C19: every reply in the message cache has its references sorted by the
\* order of the RRset keys (ub_rrset_compare): dns_cache_store_msg sorts
\* them again after store_rrsets has rewritten them and before the entry
\* is inserted, so no lookup sees a message with unsorted references.
C19_RefsSorted ==
    \A q \in DOMAIN msg_cache :
        /\ Len(msg_cache[q].ref) = msg_cache[q].rrset_count
        /\ RefsSorted(msg_cache[q])

\* a stored message whose RRsets are in another order than its references:
\* the answer CNAME comes first in the message, the NS set first in the
\* references
C19_Witness ==
    \E q \in DOMAIN msg_cache :
        /\ msg_cache[q].rrset_count = 2
        /\ msg_cache[q].ref[1].key = msg_cache[q].rrsets[2]
        /\ msg_cache[q].ref[2].key = msg_cache[q].rrsets[1]
        /\ ub_rrset_compare(msg_cache[q].rrsets[1], msg_cache[q].rrsets[2]) > 0

\* the references of r point to entries of the RRset cache
RefsInCache(r) ==
    \A i \in 1..Len(r.ref) : StoredKey(rrset_cache, r.ref[i].key) # NoKey

\* the smallest TTL of the RRset cache entries the references of r point to
MinRefTtl(r) ==
    SeqMin([i \in 1..Len(r.ref) |->
               rrset_cache[StoredKey(rrset_cache, r.ref[i].key)].data.ttl])

\* C20: at the moment dns_cache_store_msg inserts a reply r in the message
\* cache, r.ttl is the minimum of the TTLs of the RRsets its references
\* point to, also when store_rrsets redirected a reference to an RRset that
\* was in the cache already (kept for its higher trust, or merged) and has
\* another TTL than the one in the incoming reply.
C20_TtlIsMinOfRefs ==
    (last.op = "store" /\ last.stored /\ RefsInCache(msg_cache[LastEntry]))
        => msg_cache[LastEntry].ttl = MinRefTtl(msg_cache[LastEntry])

-----------------------------------------------------------------------------
(* Properties of the packed RRset data (SpecTtl) *)

\* the TTL of the set is the smallest TTL of its records and signatures
TtlIsMin(d) ==
    /\ Len(d.rr_ttl) = d.count + d.rrsig_count
    /\ d.ttl = SeqMin(d.rr_ttl)

\* the RRsets of the message returned by the last call, if any
ServedData ==
    IF last.op \in {"lookup", "find_delegation"} /\ last.res.msg.ok
    THEN {last.res.msg.rep.rrsets[i].data :
             i \in 1..Len(last.res.msg.rep.rrsets)}
    ELSE {}

\* the copy made by the last packed_rrset_copy_region, with the entry it
\* was made of
RegionCopy ==
    IF last.op = "copy_region" /\ last.res.ok
    THEN {[src |-> last.key.data, copy |-> last.res.ck.data, now |-> last.now]}
    ELSE {}

\* every TTL of the copy is the TTL of the source less the time
RegionRebased(c) ==
    /\ c.copy.ttl = USub(c.src.ttl, c.now)
    /\ c.copy.count = c.src.count
    /\ c.copy.rrsig_count = c.src.rrsig_count
    /\ \A i \in 1..(c.src.count + c.src.rrsig_count) :
           c.copy.rr_ttl[i] = USub(c.src.rr_ttl[i], c.now)

\* the CNAME that synth_dname_msg put in the message returned by the last
\* call
SynthesizedCname ==
    IF last.op = "lookup" /\ last.res.path = "dname" /\ last.res.msg.ok
       /\ last.res.msg.rep.rrset_count = 2
    THEN {last.res.msg.rep.rrsets[2].data}
    ELSE {}

\* C21: every RRset data has ttl = min(rr_ttl[0 .. count+rrsig_count-1]),
\* the TTLs of the signatures included, in the RRset cache and in every
\* message or delegation message that is returned: packed_rrset_ttl_add
\* shifts the TTL of the set and of every record and signature by the same
\* amount, copy_rrset and packed_rrset_copy_region subtract the same time
\* from all of them, and the synthesized CNAME has ttl = rr_ttl[0] = 0 and
\* no signature. The copy that packed_rrset_copy_region makes of an entry
\* that has not expired satisfies the invariant too. (The TTLs handed in are
\* capped by the caller, so that adding the time does not wrap around.)
C21_TtlIsMin ==
    /\ \A rk \in DOMAIN rrset_cache : TtlIsMin(rrset_cache[rk].data)
    /\ \A d \in ServedData : TtlIsMin(d)
    /\ \A c \in RegionCopy :
           /\ RegionRebased(c)
           /\ c.src.ttl >= c.now => TtlIsMin(c.copy)
    /\ \A d \in SynthesizedCname :
           d.ttl = 0 /\ d.rr_ttl = <<0>> /\ d.count = 1 /\ d.rrsig_count = 0

\* a signed DNAME that came in at time 1 with TTL 3 and a signature of
\* TTL 2: 4 and 3 in the cache, 3 and 2 in the copy served with the
\* synthesized CNAME of TTL 0
C21_Witness ==
    /\ last.op = "lookup"
    /\ last.res.path = "dname"
    /\ last.now = 1
    /\ gDN.rk \in DOMAIN rrset_cache
    /\ rrset_cache[gDN.rk].data.rr_ttl = <<4, 3>>
    /\ rrset_cache[gDN.rk].data.rrsig_count = 1
    /\ \E d \in ServedData : d.rr_ttl = <<3, 2>> /\ d.ttl = 2
    /\ SynthesizedCname # {}

\* a signed address copied with packed_rrset_copy_region a second after it
\* came in: 3 and 2 in the cache, 2 and 1 in the copy
C21_RegionWitness ==
    /\ \E c \in RegionCopy :
           /\ c.now = 1
           /\ c.src.rr_ttl = <<3, 2>>
           /\ c.copy.rr_ttl = <<2, 1>>
           /\ c.copy.ttl = 1

\* a delegation message with the signed NS set and the signed address
C21_DelegWitness ==
    /\ last.op = "find_delegation"
    /\ last.res.msg.ok
    /\ \E d \in ServedData : d.rrsig_count = 1 /\ d.rr_ttl = <<2, 1>>
    /\ Cardinality(ServedData) >= 1
    /\ last.res.msg.rep.rrset_count = 2

\* the message of (e.c., NS) served from the message cache with signed
\* RRsets
C21_MsgWitness ==
    /\ last.op = "lookup"
    /\ last.res.path = "msg"
    /\ last.now = 1
    /\ \E d \in ServedData : d.rrsig_count = 1 /\ d.rr_ttl = <<2, 1>>

\* every copy of packed_rrset_copy_region satisfies the invariant, expired
\* entries included
C21_CopyOfExpired == \A c \in RegionCopy : TtlIsMin(c.copy)

-----------------------------------------------------------------------------
(* Properties of dns_cache_lookup on malformed entries (SpecSynth) *)

\* the walk of the last lookup found a DNAME whose first record
\* get_cname_target rejects
FaultyDname ==
    /\ LastDname # NoKey
    /\ ~get_cname_target(LastDnameEntry).ok

\* C22: malformed cached data is treated as a miss and the faulty entry is
\* evicted. If the DNAME RRset found by dns_cache_lookup has a first record
\* that get_cname_target rejects, no reply is derived from that entry, and
\* after the call the entry is no longer in the RRset cache.
C22_MalformedEvicted ==
    (last.op = "lookup" /\ last.res.path # "msg" /\ FaultyDname) =>
        /\ last.res.path # "dname"
        /\ LastDname \notin DOMAIN rrset_cache

-----------------------------------------------------------------------------
(* Properties of the key objects (SpecKeys) *)

\* no reference whose key was destroyed after it was made matches the id of
\* the key, and no reference carries the id 0
StaleRefs ==
    /\ \A r \in last.old : r.id # 0 /\ r.id # last.keys[r.key].id
    /\ \A r \in last.refs : r.id # 0

\* the key object k was destroyed
Destroyed(k) == k.rk.dname = NoName

\* C23: destroying an RRset entry (ub_rrset_key_delete, or
\* ub_packed_rrset_parsedelete for a key of the parser or for the key that
\* store_rrsets passed while the cache had the RRset) sets its id to 0
\* before the key is released, and no reference made before the destruction
\* matches the id of the key afterwards, neither while the key is free nor
\* after it was handed out again with a fresh id.
C23_DestroyedIsStale ==
    /\ []StaleRefs
    /\ [][\A a \in KeyAddrs :
            (Destroyed(last'.keys[a]) /\ ~Destroyed(last.keys[a])) =>
                last'.keys[a].id = 0]_vars

\* the key at key1 was destroyed and handed out again with id 2 while a
\* reference with its former id 1 is still held
C23_Witness ==
    /\ last.keys["key1"].id = 2
    /\ [key |-> "key1", id |-> 1] \in last.old
    /\ [key |-> "key1", id |-> 1] \in last.refs

\* the key at key1, handed out again after a reference with its former id 1
\* was made, was passed to store_rrsets and destroyed, the key of the cache
\* at key2 adopted with a new id; the reference with id 1 is still held
C23_Adopted ==
    /\ last.op = "ref"
    /\ last.rrset = "key2"
    /\ last.ref = [key |-> "key2", id |-> last.keys["key2"].id]
    /\ last.ref.id = idctr
    /\ last.keys["key1"] = ub_packed_rrset_parsedelete(kA1)
    /\ [key |-> "key1", id |-> 1] \in last.old
    /\ [key |-> "key1", id |-> 1] \in last.refs

-----
(* Properties of the reads of RRset data (SpecLocks) *)

\* the entries the reply r points at, the entries its references name
RRsetsOf(r) == {r.rrsets[i] : i \in 1..r.rrset_count}
RefsOf(r) == RefKeys(r.ref, r.rrset_count)

\* the steps that read the data of the entry loc[t].key
ReadsKey ==
    {"lk_synth", "lk_cnamemsg", "fd_create", "fd_ds_copy", "fd_addr_add"}

\* the entry k is in the cache and is not write-locked by a thread other
\* than t
ReadLocked(t, k) ==
    /\ k \in held[t].r
    /\ k \in DOMAIN rrset_cache
    /\ \A u \in Threads \ {t} : k \notin held[u].w

\* C24: the data of an RRset is read only under the read lock of its entry,
\* with the id verified.  The RRsets and the references of every cached
\* message name the same entries; where tomsg copies the RRsets of a
\* message the thread holds the read lock of the message entry and of every
\* entry the RRsets point at, each entry is in the cache with the id of its
\* reference; where the DNAME, CNAME, NS, DS, NSEC or address entry found
\* by a lookup is read the thread holds its read lock and the entry is in
\* the cache; no other thread holds the write lock of such an entry.
C24_ReadUnderLock ==
    /\ \A e \in DOMAIN msg_cache : RRsetsOf(msg_cache[e]) = RefsOf(msg_cache[e])
    /\ \A t \in Threads :
         /\ pc[t] = "tomsg_copy" =>
              /\ loc[t].e \in held[t].m
              /\ loc[t].e \in DOMAIN msg_cache
              /\ \A u \in Threads \ {t} : loc[t].e \notin held[u].mw
              /\ \A k \in RRsetsOf(msg_cache[loc[t].e]) : ReadLocked(t, k)
              /\ \A i \in 1..msg_cache[loc[t].e].rrset_count :
                    rrset_cache[msg_cache[loc[t].e].ref[i].key].id =
                        msg_cache[loc[t].e].ref[i].id
         /\ pc[t] \in ReadsKey => ReadLocked(t, loc[t].key)

\* thread 1 is about to copy the RRsets of the message for e.c. A while
\* thread 2, storing a message, waits for the write lock of one of them
C24_Witness ==
    /\ pc[1] = "tomsg_copy"
    /\ loc[1].e = qA
    /\ pc[2] = "st_rrset"
    /\ loc[2].rep.rrsets[loc[2].i].rk \in held[1].r

-----------------------------------------------------------------------------
(* Properties of the referral message (SpecDeleg) *)

\* the types of the RRsets in the authority section, in the additional
\* section of a referral
AuthorityTypes == {LDNS_RR_TYPE_NS, LDNS_RR_TYPE_DS, LDNS_RR_TYPE_NSEC}
AdditionalTypes == {LDNS_RR_TYPE_A, LDNS_RR_TYPE_AAAA}

\* the key of the NS entry of the delegation point
ReferralNS ==
    LookupKey(ReferralDp.name, ReferralDp.namelen, LDNS_RR_TYPE_NS,
              last.q.qclass, 0)

\* C25: every referral message dns_cache_find_delegation returns has the
\* flags QR only, qdcount 1, no answer RRsets, the copy of the NS set as its
\* first RRset, the authority RRsets before the additional RRsets,
\* rrset_count = ns_numrrsets + ar_numrrsets, and rrset_count at most the
\* capacity 2 + 2 * (number of NS records) of the array.
C25_ReferralShape ==
    (last.op = "find_delegation" /\ last.res.msg.ok) =>
        /\ Referral.flags = BIT_QR
        /\ Referral.qdcount = 1
        /\ Referral.an_numrrsets = 0
        /\ Referral.ns_numrrsets >= 1
        /\ NsFound.rrset = ReferralNS
        /\ RebasedOf(Referral.rrsets[1], NsFound.entry, last.now)
        /\ Len(Referral.rrsets) = Referral.rrset_count
        /\ \A i \in 1..Referral.rrset_count :
              IF i <= Referral.ns_numrrsets
              THEN ntohs(Referral.rrsets[i].rk.type) \in AuthorityTypes
              ELSE ntohs(Referral.rrsets[i].rk.type) \in AdditionalTypes
        /\ Referral.rrset_count =
              Referral.ns_numrrsets + Referral.ar_numrrsets
        /\ Referral.capacity = 2 + 2 * NsFound.entry.data.count
        /\ Referral.rrset_count <= Referral.capacity

\* a referral with the NS set and the DS in the authority section and two
\* address RRsets in the additional section
C25_Witness ==
    /\ last.op = "find_delegation"
    /\ last.res.msg.ok
    /\ Referral.ns_numrrsets = 2
    /\ Referral.ar_numrrsets = 2
    /\ Referral.rrset_count = 4

-----------------------------------------------------------------------------
(* Properties of ub_rrset_compare (SpecCompare) *)

\* the name in lower case
Lower(d) == [i \in DOMAIN d |-> tolower(d[i])]

\* the four fields of the key are equal, the names canonically
KeyEqual(k1, k2) ==
    /\ Lower(k1.dname) = Lower(k2.dname)
    /\ k1.type = k2.type
    /\ k1.rrset_class = k2.rrset_class
    /\ k1.flags = k2.flags

\* -1, 0 or 1 as x is below, equal to or above y
Order(x, y) == IF x < y THEN -1 ELSE IF x > y THEN 1 ELSE 0

\* the first of the fields type, dname_len, name, class, flags in which the
\* keys differ decides
FieldOrder(k1, k2) ==
    IF k1.type # k2.type THEN Order(k1.type, k2.type)
    ELSE IF k1.dname_len # k2.dname_len
    THEN Order(k1.dname_len, k2.dname_len)
    ELSE IF Lower(k1.dname) # Lower(k2.dname)
    THEN query_dname_compare(k1.dname, k2.dname)
    ELSE IF k1.rrset_class # k2.rrset_class
    THEN Order(k1.rrset_class, k2.rrset_class)
    ELSE Order(k1.flags, k2.flags)

\* C26: ub_rrset_compare is a total order on the keys, consistent with key
\* equality: type, then dname_len, then the canonical comparison of the
\* names, then class, then flags decide, each ascending; compare(a, b) and
\* compare(b, a) have opposite signs; it is transitive; it returns 0
\* exactly when name, type, class and flags are equal.
C26_TotalOrder ==
    last.op = "compare" =>
        /\ last.ab \in {-1, 0, 1}
        /\ last.ab = FieldOrder(last.a, last.b)
        /\ last.ab = 0 - last.ba
        /\ (last.ab <= 0 /\ last.bc <= 0) => last.ac <= 0
        /\ (last.ab <= 0 /\ last.bc < 0) => last.ac < 0
        /\ (last.ab < 0 /\ last.bc <= 0) => last.ac < 0
        /\ (last.ab = 0) <=> KeyEqual(last.a, last.b)

\* keys that differ in the flags only, and a third, with the name in another
\* case, above both: the flags decide, and the order carries over
C26_Witness ==
    /\ last.op = "compare"
    /\ last.a.dname = nEC
    /\ last.b = [last.a EXCEPT !.flags = PACKED_RRSET_NSEC_AT_APEX]
    /\ last.a.flags = 0
    /\ last.c.dname = nEup
    /\ last.ab = -1
    /\ last.bc = -1
    /\ last.ac = -1

-----------------------------------------------------------------------------
(* Properties of the TTL of the served reply (Spec) *)

\* the smallest TTL of the RRsets of the served message
ServedMinTtl ==
    SeqMin([i \in 1..last.res.msg.rep.rrset_count |->
               last.res.msg.rep.rrsets[i].data.ttl])

\* C27: in every message dns_cache_lookup returns the TTL of the reply is
\* relative, the seconds that remain, like the TTLs of its RRsets: the
\* absolute TTL of the cached message less now on the message path, that of
\* the cached CNAME less now on the CNAME path, and on the DNAME path the
\* seconds that remain for the RRsets served.
C27_ReplyTtlRelative ==
    (last.op = "lookup" /\ last.res.msg.ok) =>
        IF last.res.path = "msg"
        THEN last.res.msg.rep.ttl =
                 USub(msg_cache[slabhash_lookup(msg_cache, last.q)].ttl,
                      last.now)
        ELSE IF last.res.path = "cname"
        THEN last.res.msg.rep.ttl =
                 USub(rrset_cache[ServedFrom].data.ttl, last.now)
        ELSE last.res.msg.rep.ttl = ServedMinTtl

-----------------------------------------------------------------------------
(* Properties of the nesting of the locks (SpecLocks) *)

\* the steps of the message path of dns_cache_lookup after the message
\* entry was locked
MsgPath == {"tomsg", "array_lock", "tomsg_copy"}

\* the steps of dns_cache_lookup after the message path
SynthPath == {"lk_dname", "lk_synth", "lk_cname", "lk_cnamemsg"}

\* the steps at which a thread asks for the lock of a message entry next:
\* the start of dns_cache_lookup, the slabhash_insert of dns_cache_store_msg
AsksMsgLock == {"idle", "st_msg"}

RRsetLocks(t) == held[t].r \cup held[t].w
MsgLocks(t) == held[t].m \cup held[t].mw

\* C28: the locks nest in one direction.  A thread holds an RRset entry
\* lock together with a message entry lock only on the message path of
\* dns_cache_lookup; a thread that asks for a message entry lock holds no
\* RRset entry lock; the lock of a message that was not served is released
\* before the lookups of the DNAME and the CNAME.
C28_LockNesting ==
    \A t \in Threads :
        /\ (MsgLocks(t) # {} /\ RRsetLocks(t) # {}) =>
              (loc[t].op = "lookup" /\ pc[t] \in MsgPath)
        /\ MsgLocks(t) # {} => pc[t] \in MsgPath
        /\ pc[t] \in AsksMsgLock => RRsetLocks(t) = {}
        /\ pc[t] \in SynthPath => MsgLocks(t) = {}

\* thread 1 holds the lock of a message entry and of its RRsets while
\* thread 2, whose cached message was rejected, looks for a DNAME
C28_Witness ==
    /\ pc[1] = "tomsg_copy"
    /\ held[1].m # {}
    /\ held[1].r # {}
    /\ pc[2] = "lk_dname"
    /\ slabhash_lookup(msg_cache, loc[2].q) # NoQuery
    /\ held[2] = NoLocks

-----------------------------------------------------------------------------
(* Properties of the caches across the read operations (Spec) *)

\* C29: dns_cache_lookup and dns_cache_find_delegation do not change the
\* contents of the caches: whatever they return, no step of a call changes
\* the entries of the message cache and of the RRset cache, with their
\* keys, ids, data and TTLs, nor the id counter; a cached message that is
\* expired or has a stale reference stays in place.
C29_ReadOnly ==
    [][Looked =>
          /\ rrset_cache' = rrset_cache
          /\ msg_cache' = msg_cache
          /\ idctr' = idctr]_vars

\* a lookup has returned nothing and the cached message it found for its
\* query, not served because a reference is stale or the message expired,
\* is there
C29_Witness ==
    /\ last.op = "lookup"
    /\ last.res.path = "none"
    /\ last.seen[1].entry # NoQuery
    /\ last.seen[1].expired \/ ~last.seen[1].live
    /\ slabhash_lookup(msg_cache, last.q) = last.seen[1].entry

-----------------------------------------------------------------------------
(* Properties of the walk up the name (SpecDeleg) *)

\* the number of labels of the name, the root label not counted
LabelCount(name) == Cardinality(Suffixes(name)) - 1

\* the nameserver names in the records of the NS entry e
NsNames(e) ==
    {SubSeq(e.data.rr_data[i], 3, e.data.rr_len[i]) : i \in 1..e.data.count}

\* the walk in progress: after j lookups that missed the next lookup is for
\* the suffix j + 1 of the query name, which has at least the root label
WalkGoesOn ==
    pc["reader"] = "deleg_ns" =>
        LET l == loc["reader"]
            j == Len(l.seen)
        IN  /\ j <= LabelCount(l.q.qname)
            /\ \A i \in 1..j : l.seen[i].rrset = NoKey
            /\ l.qname = Walk(l.q.qname)[j + 1]
            /\ l.qnamelen = Len(l.qname)
            /\ l.qnamelen = l.q.qname_len - (Len(l.q.qname) - Len(l.qname))

\* the walk of the last dns_cache_find_delegation that returned: at most
\* k + 1 lookups for a name of k labels, one for each suffix from the name
\* itself to the root in the order of decreasing length, the first entry
\* found returned with the bytes of the labels passed over consumed, and
\* after a miss at every suffix exactly qnamelen bytes consumed and NULL
WalkReturned ==
    /\ WalkGoesOn
    /\ last.op = "find_delegation" =>
          /\ Len(SeenOf("ns")) \in 1..(LabelCount(last.q.qname) + 1)
          /\ WalkOk(SeenOf("ns"), last.q.qname)
          /\ \A i \in 1..(Len(SeenOf("ns")) - 1) :
                Len(SeenOf("ns")[i + 1].name) < Len(SeenOf("ns")[i].name)
          /\ IF NsFound.rrset # NoKey
             THEN /\ query_dname_compare(NsFound.rrset.dname, NsFound.name) = 0
                  /\ NsFound.entry.data.ttl > last.now
                  /\ last.qnamelen = Len(NsFound.name)
                  /\ last.res.dp.ok =>
                        {last.res.dp.nslist[i].name :
                            i \in 1..Len(last.res.dp.nslist)}
                                \subseteq NsNames(NsFound.entry)
             ELSE /\ Len(SeenOf("ns")) = LabelCount(last.q.qname) + 1
                  /\ NsFound.name = nRoot
                  /\ last.qnamelen = 0
                  /\ ~last.res.dp.ok

\* the walk for w.e.c. looked at w.e.c., at e.c., at c. and at the root,
\* where it found the NS set
WalkReturnedAtRoot ==
    /\ last.op = "find_delegation"
    /\ last.q = qWA
    /\ Len(SeenOf("ns")) = 4
    /\ [i \in 1..4 |-> SeenOf("ns")[i].name] = <<nWEC, nEC, nC, nRoot>>
    /\ NsFound.rrset = dNSroot.rk
    /\ last.res.dp.ok
    /\ last.res.dp.name = nRoot

-----------------------------------------------------------------------------
(* Properties of the walk up the name with the entry locks (SpecWalk) *)

\* thread t is in the loop of find_closest_of_type: for the DNAME in
\* dns_cache_lookup, for the NS in dns_cache_find_delegation
InWalk(t) == pc[t] \in {"lk_dname", "fd_ns"}

\* find_closest_of_type has returned an entry to thread t
WalkHit(t) == pc[t] \in {"lk_synth", "fd_create"}

\* the step is a turn of the loop of find_closest_of_type by thread t: a
\* turn of a walk in progress, or the first turn, made when
\* dns_cache_find_delegation is called
WalkTurn(t) ==
    \/ InWalk(t) /\ <<pc[t], loc[t]>> # <<pc'[t], loc'[t]>>
    \/ pc[t] = "idle" /\ pc'[t] \in {"fd_ns", "fd_create"}

\* the query, the name looked up and the number of turns made before the
\* turn the step makes
TurnOf(t) ==
    IF pc[t] = "idle"
    THEN [q |-> loc'[t].q, name |-> loc'[t].q.qname, walked |-> 0,
          type |-> LDNS_RR_TYPE_NS]
    ELSE [q |-> loc[t].q, name |-> loc[t].name, walked |-> loc[t].walked,
          type |-> IF pc[t] = "lk_dname" THEN LDNS_RR_TYPE_DNAME
                   ELSE LDNS_RR_TYPE_NS]

\* the bytes of the first j labels of name, each with its length byte
RECURSIVE LabelBytes(_, _)
LabelBytes(name, j) ==
    IF j = 0 THEN 0
    ELSE name[1] + 1
            + LabelBytes(SubSeq(name, name[1] + 2, Len(name)), j - 1)

\* the turn of thread t looks up the next suffix of the query name, the
\* bytes of the labels in front of it consumed and the rest left; an
\* unexpired entry is returned with its read lock held and nothing else; a
\* miss above the root goes on with the next shorter suffix, no lock held;
\* a miss at the root is the last of k + 1 lookups and ends the walk with
\* NULL, no lock held
TurnOk(t) ==
    LET w == TurnOf(t)
        k == LabelCount(w.q.qname)
        s == StoredKey(rrset_cache,
                 LookupKey(w.name, Len(w.name), w.type, w.q.qclass, 0))
        hit == s # NoKey /\ rrset_cache[s].data.ttl > now
    IN  /\ w.walked <= k
        /\ w.name = Walk(w.q.qname)[w.walked + 1]
        /\ Len(w.name) = w.q.qname_len - LabelBytes(w.q.qname, w.walked)
        /\ IF hit
           THEN /\ WalkHit(t)'
                /\ loc'[t].key = s
                /\ loc'[t].walked = w.walked + 1
                /\ held'[t] = [NoLocks EXCEPT !.r = {s}]
           ELSE /\ held'[t] = NoLocks
                /\ IF w.walked < k
                   THEN /\ InWalk(t)'
                        /\ pc'[t] = IF w.type = LDNS_RR_TYPE_NS THEN "fd_ns"
                                    ELSE "lk_dname"
                        /\ loc'[t].walked = w.walked + 1
                        /\ loc'[t].name = Walk(w.q.qname)[w.walked + 2]
                        /\ Len(loc'[t].name) < Len(w.name)
                   ELSE /\ w.name = nRoot
                        /\ LabelBytes(w.q.qname, k + 1) = w.q.qname_len
                        /\ pc'[t] = IF w.type = LDNS_RR_TYPE_NS THEN "idle"
                                    ELSE "lk_cname"
                        /\ pc'[t] = "lk_cname" =>
                               /\ loc'[t].walked = k + 1
                               /\ loc'[t].name = <<>>

\* between the turns of the walk the thread holds no lock; the entry that
\* find_closest_of_type returned is in the RRset cache at a suffix of the
\* query name, found by lookup number walked <= k + 1, has not expired, and
\* its read lock is the one lock the thread holds
WalkLocks ==
    \A t \in Threads :
        /\ InWalk(t) =>
              /\ held[t] = NoLocks
              /\ loc[t].walked <= LabelCount(loc[t].q.qname)
              /\ loc[t].name = Walk(loc[t].q.qname)[loc[t].walked + 1]
        /\ WalkHit(t) =>
              /\ held[t] = [NoLocks EXCEPT !.r = {loc[t].key}]
              /\ loc[t].key \in DOMAIN rrset_cache
              /\ rrset_cache[loc[t].key].data.ttl > now
              /\ loc[t].walked \in 1..(LabelCount(loc[t].q.qname) + 1)
              /\ loc[t].key.dname = Walk(loc[t].q.qname)[loc[t].walked]

\* C30: find_closest_of_type terminates for every well-formed name.  For a
\* name of k labels and the root label it makes at most k + 1 lookups, one
\* for each suffix from the name itself to the root, in the order of
\* decreasing length, each turn consuming the bytes of the label in front;
\* it returns the first entry found that has not expired, with the read
\* lock of that entry held by the thread and no other lock; when every
\* suffix misses it has consumed exactly qnamelen bytes and returns NULL,
\* the thread holding no lock.
C30_WalkTerminates ==
    /\ []WalkLocks
    /\ [][\A t \in Threads : WalkTurn(t) => TurnOk(t)]_vars

\* the third lookup of the walk for w.e.c., at c., found the DNAME and
\* returned it locked
C30_Witness ==
    \E t \in Threads :
        /\ pc[t] = "lk_synth"
        /\ loc[t].q = qWA
        /\ loc[t].walked = 3
        /\ loc[t].key = lDN.rk
        /\ held[t] = [NoLocks EXCEPT !.r = {lDN.rk}]

\* the walk for w.e.c. missed at w.e.c., at e.c., at c. and at the root:
\* the call goes on to the CNAME after four lookups, no lock held
C30_WalkedToRoot ==
    \E t \in Threads :
        /\ pc[t] = "lk_cname"
        /\ loc[t].q = qWA
        /\ loc[t].walked = 4
        /\ held[t] = NoLocks

=============================================================================
